---- MODULE Spec2Model ----
(***************************************************************************)
(* State-machine model of the Aura Lofi chat UI: the image editor's mask   *)
(* history (ImageEditorModal), the editor's and the chat's remote calls,   *)
(* the conversation hook and the image service's failure messages.         *)
(*                                                                         *)
(* One handler invocation together with the effects React runs for it is   *)
(* one atomic step; everything that is awaited (image decoding, timers,    *)
(* remote calls, store requests) completes in a later step.                *)
(***************************************************************************)
EXTENDS Integers, Sequences, FiniteSets, TLC

\* ------------------------------------------------------------------ bounds
MaxStrokes == 1      \* strokes the user may begin in one editor session
MaxRuns == 2         \* strokes in a run of strokes ended in succession
MaxClears == 1       \* clicks on "Clear mask" in one editor session
MaxSessions == 2     \* times the editor is given a source image
MaxLoads == 2        \* snapshot images that may be decoding at one time
CanvasW == 10        \* width of the display canvas, in pixels
CanvasH == 8         \* height of the display canvas, in pixels
MaxCalls == 2        \* remote-call handlers the user may start in the editor
MaxChatCalls == 2    \* remote-call handlers the user may start from the chat
MaxText == 2         \* characters of a service response's text
MaxDrags == 1        \* drag steps of the crop box
MaxCrops == 1        \* Apply Crop clicks
MaxAdjust == 1       \* changes of transforms, adjustments and zoom
MaxTurns == 4        \* changes of the rotation in the specification of the rotation
MaxBakes == 4        \* changes that combine in one preview of the editor
SignificandBits == 11  \* bits of a number's significand in the canvas arithmetic
MaxRequests == 5     \* animation-frame requests of the editor
MaxDbCalls == 3      \* calls of the conversation hook's store operations
MaxTime == 2         \* values of the clock (Date.now) when a message is stored
MaxZooms == 11       \* zoom steps: enough to reach the largest and the smallest zoom
MaxWheel == 1        \* wheel events over the image viewer
MaxPans == 1         \* mouse moves that drag the viewer's image
MaxUploads == 2      \* files the user may choose
MaxRemovals == 1     \* deleteMessage / clearHistory calls the user may confirm

VARIABLES
    \* --- App.editorState and the editor's source image
    isOpen,            \* editorState.isOpen
    imageData,         \* editorState.imageData: 0 = null, else the identity of the object
    sessions,          \* number of imageData objects handed to the editor so far
    committedImage,    \* 0 = null, else the imageData the decoded image came from
    srcLoads,          \* source images whose onload has not fired yet
    \* --- tool selection and crop mode
    activeTool,
    isCropping,
    cropBox,           \* NoBox, or a box in tenths of a display pixel
    draggingHandle,    \* "none" = null
    dragStartPos,
    rawBox,            \* the box of the last drag step of this crop, before normalisation
    nDrags,            \* drag steps so far
    cropLoads,         \* cropped images decoding: onload of handleApplyCrop to come
    nCrops,
    brightness,
    contrast,
    saturation,
    rotation,          \* degrees
    uniformScale,      \* in hundredths
    flipScale,
    activeFilter,
    zoom,              \* in units of 1 / ZoomUnit
    panOffset,
    nAdjust,           \* slider and button changes of the view so far
    \* --- mask layer
    history,           \* snapshots; each carries its pixels and a unique id
    historyIndex,
    surface,           \* pixels of the drawing canvas: the strokes visible on it
    isDrawing,         \* isDrawing.current
    strokes,           \* strokes begun so far; the current stroke's identity
    clears,            \* clear-mask clicks so far
    maskLoads,         \* snapshot images whose onload has not fired yet
    nextSid,           \* next snapshot id
    \* --- history of the mask operations, kept for the properties
    lastOps,           \* the last (up to three) history operations since initialisation
    discarded,         \* ids of the snapshots a commit has cut off
    scen,              \* "off" | "commits" | "undos": commits-then-undos run since init
    nCommits,
    nUndos,
    \* --- the editor's remote calls
    prompt,
    editedImageData,   \* NoResult, or the result of a remote edit
    isGenerating,
    error,             \* NoError (null), or the message, as a sequence of tokens
    calls,             \* the editor's remote-call handlers in progress
    nCalls,            \* handlers started so far; names the invocations
    failedCalls,       \* the invocations whose remote call was rejected
    \* --- the chat screen (App) and the conversation hook
    isLoading,
    messages,          \* useConversationHistory: messages
    stored,            \* the store's rows for this session, in key order
    historyLoaded,     \* loadHistory has finished
    chatCalls,         \* the chat's remote-call handlers in progress
    nChatCalls,
    finished,          \* the chat handlers that have returned, with their outcome
    nextKey,           \* the store's key generator (autoIncrement)
    nRemovals,         \* deleteMessage / clearHistory calls so far
    lastRemoval,       \* the last of them: which, and whether the store accepted it
    \* --- the image service
    svcIn,             \* the call in progress and what the remote API answers
    svcInner,          \* the message thrown inside the try block
    svcEdit,           \* enhanceImage / removeBackground: what their editImage call gave
    svcOut,            \* what the caller gets
    \* --- the upload button (App)
    uploads,           \* files chosen whose FileReader has not answered yet
    nUploads,
    alerts,            \* alert() calls so far
    \* --- Apply / Save of the editor
    saves,             \* handleEditComplete / handleSaveClientEdit runs awaiting the store
    nDone,             \* handleDone runs so far
    lastDone,          \* the last of them: the callback it invoked and with what
    \* --- the image viewer (ImageViewerModal of a message bubble)
    viewerOpen,
    scale,             \* a rational number [n, d] in lowest terms
    position,          \* [x, y] of rational numbers, in pixels
    isDragging,
    startDrag,
    nZoomClicks,       \* clicks on the viewer's zoom and reset buttons so far
    nWheel,            \* wheel events so far
    wheelAt,           \* the mouse position of the last of them, relative to the container
    nPans,             \* mouse moves that dragged the image so far
    \* --- the editor's animation-frame requests
    renderRequestRef,  \* renderRequestRef.current: 0 = null, else the last handle
    frameRequests,     \* handles of the callbacks the next frame will run
    nextHandle,        \* the handle requestAnimationFrame returns next
    nQueued,           \* queueRender calls since the last frame
    nRendered,         \* renderCanvas executions of the last frame
    \* --- the store (db.ts) under the conversation hook's operations
    dbPromise,         \* 0 = null, else the number of the open request it stands for
    opens,             \* the indexedDB.open calls so far: each pending, resolved or rejected
    dbCalls,           \* the hook's operations in progress, each at one db function
    txQueue,           \* the transactions created and not yet finished, in order of creation
    rows,              \* the message store: records of every session
    nextRowKey,        \* the store's key generator
    lastDb,            \* the last db function that finished its transaction, and its result
    loadOutcome,       \* "none" while loadHistory runs, then "loaded" or "failed"
    nDbCalls           \* operations of the hook started so far

sessionVars == <<isOpen, imageData, sessions, committedImage, srcLoads>>
cropVars == <<draggingHandle, dragStartPos, rawBox, nDrags, cropLoads, nCrops>>
adjustVars == <<brightness, contrast, saturation, rotation, uniformScale, flipScale, activeFilter>>
viewVars == <<zoom, panOffset, nAdjust>>
toolVars == <<activeTool, isCropping, cropBox, cropVars, adjustVars, viewVars>>
maskVars == <<history, historyIndex, surface, isDrawing, strokes, clears, maskLoads, nextSid>>
maskLog == <<lastOps, discarded, scen, nCommits, nUndos>>
editVars == <<prompt, editedImageData, isGenerating, error, calls, nCalls, failedCalls>>
removalLog == <<nRemovals, lastRemoval>>
chatVars == <<isLoading, messages, stored, historyLoaded, chatCalls, nChatCalls, finished,
              nextKey, removalLog>>
svcVars == <<svcIn, svcInner, svcEdit, svcOut>>
restVars == <<chatVars, svcVars>>
uploadVars == <<uploads, nUploads, alerts>>
doneVars == <<saves, nDone, lastDone>>
viewerVars ==
    <<viewerOpen, scale, position, isDragging, startDrag, nZoomClicks, nWheel, wheelAt, nPans>>
frameVars == <<renderRequestRef, frameRequests, nextHandle, nQueued, nRendered>>
dbVars == <<dbPromise, opens, dbCalls, txQueue, rows, nextRowKey, lastDb, loadOutcome, nDbCalls>>
lateVars == <<frameVars, dbVars>>
otherVars == <<uploadVars, doneVars, viewerVars, lateVars>>
vars == <<sessionVars, toolVars, maskVars, maskLog, editVars, restVars, otherVars>>

\* ------------------------------------------------------------------ values
EditorTool == {"brush", "transform", "adjust", "expand", "filters", "removeBackground", "aiFilters"}
NoBox == [x |-> -1, y |-> -1, width |-> -1, height |-> -1]
Origin == [x |-> 0, y |-> 0]
NoFlip == [x |-> 1, y |-> 1]
ZoomUnit == 1000000
NoResult == [sess |-> 0, src |-> 0]
NoError == <<>>
Strokes == 1..MaxStrokes

\* The canvases exist while the modal renders them (not null-rendered).
CanvasMounted == isOpen /\ imageData # 0

\* drawingCanvas.toDataURL(): the pixels now on the mask surface.
toDataURL == surface

\* ------------------------------------------------------------ initial state
InitSession ==
    /\ isOpen = FALSE
    /\ imageData = 0
    /\ sessions = 0
    /\ committedImage = 0
    /\ srcLoads = {}

InitTool ==
    /\ activeTool = "brush"
    /\ isCropping = FALSE
    /\ cropBox = NoBox
    /\ draggingHandle = "none"
    /\ dragStartPos = Origin
    /\ rawBox = NoBox
    /\ nDrags = 0
    /\ cropLoads = {}
    /\ nCrops = 0
    /\ brightness = 100
    /\ contrast = 100
    /\ saturation = 100
    /\ rotation = 0
    /\ uniformScale = 100
    /\ flipScale = NoFlip
    /\ activeFilter = "none"
    /\ zoom = ZoomUnit
    /\ panOffset = Origin
    /\ nAdjust = 0

InitMask ==
    /\ history = <<>>
    /\ historyIndex = -1
    /\ surface = {}
    /\ isDrawing = FALSE
    /\ strokes = 0
    /\ clears = 0
    /\ maskLoads = {}
    /\ nextSid = 0
    /\ lastOps = <<>>
    /\ discarded = {}
    /\ scen = "off"
    /\ nCommits = 0
    /\ nUndos = 0

\* ------------------------------------------------------------ mask history
\* The operations log keeps the three most recent entries.
Logged(op) ==
    LET all == Append(lastOps, [op |-> op, idx |-> historyIndex])
    IN  IF Len(all) > 3 THEN SubSeq(all, Len(all) - 2, Len(all)) ELSE all

\* saveState's array: history.slice(0, historyIndex + 1) with the snapshot pushed.
newHistory_NoTruncate(h, i, snap) == Append(h, snap)
newHistory_SliceShort(h, i, snap) == Append(SubSeq(h, 1, i), snap)
newHistory(h, i, snap) == Append(SubSeq(h, 1, i + 1), snap)

\* Undo and redo are live (button enabled and handler guard true).
CanUndo_OffByOne == historyIndex >= 0
CanUndo == historyIndex > 0
CanRedo == historyIndex < Len(history) - 1

\* redrawMask for history h and cursor i: the surface is cleared at once and the
\* snapshot, when there is one, is decoded and drawn over it later.
redrawMask(h, i) ==
    /\ Cardinality(maskLoads) < MaxLoads
    /\ surface' = {}
    /\ maskLoads' = IF i >= 0 /\ i < Len(h) THEN maskLoads \cup {h[i + 1].px} ELSE maskLoads

\* saveState with px on the mask surface, followed by the cursor's redraw effect.
saveState(px) ==
    LET snap == [sid |-> nextSid, px |-> px]
        nh == newHistory(history, historyIndex, snap)
    IN  /\ history' = nh
        /\ historyIndex' = Len(nh) - 1
        /\ nextSid' = nextSid + 1
        /\ redrawMask(nh, Len(nh) - 1)
        /\ lastOps' = Logged("commit")
        /\ discarded' = discarded \cup
              {history[j].sid : j \in (historyIndex + 2)..Len(history)}
        /\ scen' = IF scen = "commits" THEN "commits" ELSE "off"
        /\ nCommits' = IF scen = "commits" THEN nCommits + 1 ELSE 0
        /\ nUndos' = 0

resetTransformsAndAdjustments ==
    /\ brightness' = 100
    /\ contrast' = 100
    /\ saturation' = 100
    /\ rotation' = 0
    /\ uniformScale' = 100
    /\ flipScale' = NoFlip
    /\ isCropping' = FALSE
    /\ cropBox' = NoBox
    /\ activeFilter' = "none"

resetAllState ==
    /\ prompt' = <<>>
    /\ editedImageData' = NoResult
    /\ isGenerating' = FALSE
    /\ error' = NoError
    /\ activeTool' = "brush"
    /\ history' = <<>>
    /\ historyIndex' = -1
    /\ committedImage' = 0
    /\ resetTransformsAndAdjustments
    /\ zoom' = ZoomUnit
    /\ panOffset' = Origin

\* App.handleStartEdit / handleFileChange set editorState; the modal's effect on
\* [isOpen, imageData] resets the editor and starts decoding the source image.
\* The open modal covers the chat screen, so the editor is opened while closed.
OpenEditor ==
    /\ sessions < MaxSessions
    /\ ~isOpen
    /\ isOpen' = TRUE
    /\ sessions' = sessions + 1
    /\ imageData' = sessions + 1
    /\ resetAllState
    /\ srcLoads' = srcLoads \cup {sessions + 1}
    /\ lastOps' = <<>>
    /\ discarded' = {}
    /\ scen' = "off"
    /\ nCommits' = 0
    /\ nUndos' = 0
    \* A reopened editor mounts fresh canvases, so its strokes and snapshots are
    \* counted (and named) from the start again.
    /\ strokes' = 0
    /\ clears' = 0
    /\ nextSid' = 0
    /\ UNCHANGED <<surface, isDrawing, maskLoads, calls, nCalls, failedCalls, cropVars, nAdjust,
                   restVars, otherVars>>

\* App.handleCloseEditor: the modal renders null, which unmounts both canvases;
\* a snapshot still decoding can no longer reach a mounted canvas.
CloseEditor ==
    /\ isOpen
    /\ ~isDrawing
    /\ isOpen' = FALSE
    /\ imageData' = 0
    /\ surface' = {}
    /\ maskLoads' = {}
    /\ UNCHANGED <<sessions, committedImage, srcLoads, toolVars, history, historyIndex,
                   isDrawing, strokes, clears, nextSid, maskLog, editVars, restVars,
                   otherVars>>

\* image.onload of a source image.
ImageLoaded(i) ==
    /\ i \in srcLoads
    /\ committedImage' = i
    /\ srcLoads' = srcLoads \ {i}
    /\ UNCHANGED <<isOpen, imageData, sessions, toolVars, maskVars, maskLog, editVars, restVars,
                   otherVars>>

\* The 50 ms timer of the blank-history effect.
BlankInit ==
    /\ CanvasMounted
    /\ committedImage # 0
    /\ history = <<>>
    /\ history' = <<[sid |-> nextSid, px |-> toDataURL]>>
    /\ historyIndex' = 0
    /\ nextSid' = nextSid + 1
    /\ redrawMask(history', 0)
    /\ lastOps' = <<>>
    /\ discarded' = {}
    /\ scen' = IF toDataURL = {} THEN "commits" ELSE "off"
    /\ nCommits' = 0
    /\ nUndos' = 0
    /\ UNCHANGED <<sessionVars, toolVars, isDrawing, strokes, clears, editVars, restVars,
                   otherVars>>

startDrawing_AnyTool ==
    /\ CanvasMounted
    /\ ~isDrawing
    /\ isDrawing' = TRUE
    /\ strokes' = strokes + 1
    /\ UNCHANGED <<sessionVars, toolVars, history, historyIndex, surface, clears,
                   maskLoads, nextSid, maskLog, editVars, restVars, otherVars>>

startDrawing ==
    /\ CanvasMounted
    /\ ~isDrawing
    /\ activeTool = "brush" /\ ~isCropping
    /\ isDrawing' = TRUE
    /\ strokes' = strokes + 1
    /\ UNCHANGED <<sessionVars, toolVars, history, historyIndex, surface, clears,
                   maskLoads, nextSid, maskLog, editVars, restVars, otherVars>>

draw ==
    /\ CanvasMounted
    /\ isDrawing
    /\ surface' = surface \cup {strokes}
    /\ UNCHANGED <<sessionVars, toolVars, history, historyIndex, isDrawing, strokes, clears,
                   maskLoads, nextSid, maskLog, editVars, restVars, otherVars>>

\* The strokes explored in one editor session.
MayStroke == strokes < MaxStrokes

\* onMouseUp and onMouseLeave of the canvases: without a stroke in progress the
\* handler does nothing.
stopDrawing_Unguarded ==
    /\ CanvasMounted
    /\ isDrawing' = FALSE
    /\ saveState(toDataURL)
    /\ UNCHANGED <<sessionVars, toolVars, strokes, clears, editVars, restVars, otherVars>>

stopDrawing ==
    /\ CanvasMounted
    /\ IF isDrawing
       THEN /\ isDrawing' = FALSE
            /\ saveState(toDataURL)
            /\ UNCHANGED <<sessionVars, toolVars, strokes, clears, editVars, restVars,
                           otherVars>>
       ELSE UNCHANGED vars

handleClearMask ==
    /\ CanvasMounted
    /\ ~isDrawing
    /\ activeTool = "brush" /\ editedImageData = NoResult
    /\ clears < MaxClears
    /\ clears' = clears + 1
    /\ saveState({})
    /\ UNCHANGED <<sessionVars, toolVars, isDrawing, strokes, editVars, restVars, otherVars>>

undo_Truncates ==
    /\ CanvasMounted
    /\ ~isDrawing
    /\ CanUndo
    /\ history' = SubSeq(history, 1, historyIndex)
    /\ historyIndex' = historyIndex - 1
    /\ redrawMask(history, historyIndex - 1)
    /\ lastOps' = Logged("undo")
    /\ scen' = IF scen \in {"commits", "undos"} THEN "undos" ELSE "off"
    /\ nUndos' = IF scen \in {"commits", "undos"} THEN nUndos + 1 ELSE 0
    /\ UNCHANGED <<sessionVars, toolVars, isDrawing, strokes, clears, nextSid,
                   discarded, nCommits, editVars, restVars, otherVars>>

undo ==
    /\ CanvasMounted
    /\ ~isDrawing
    /\ CanUndo
    /\ historyIndex' = historyIndex - 1
    /\ redrawMask(history, historyIndex - 1)
    /\ lastOps' = Logged("undo")
    /\ scen' = IF scen \in {"commits", "undos"} THEN "undos" ELSE "off"
    /\ nUndos' = IF scen \in {"commits", "undos"} THEN nUndos + 1 ELSE 0
    /\ UNCHANGED <<sessionVars, toolVars, history, isDrawing, strokes, clears, nextSid,
                   discarded, nCommits, editVars, restVars, otherVars>>

redo ==
    /\ CanvasMounted
    /\ ~isDrawing
    /\ CanRedo
    /\ historyIndex' = historyIndex + 1
    /\ redrawMask(history, historyIndex + 1)
    /\ lastOps' = Logged("redo")
    /\ scen' = "off"
    /\ nCommits' = 0
    /\ nUndos' = 0
    /\ UNCHANGED <<sessionVars, toolVars, history, isDrawing, strokes, clears, nextSid,
                   discarded, editVars, restVars, otherVars>>

\* img.onload of a snapshot: drawn over whatever the surface holds by then.
MaskLoadDone(px) ==
    /\ px \in maskLoads
    /\ maskLoads' = maskLoads \ {px}
    /\ surface' = IF CanvasMounted THEN surface \cup px ELSE surface
    /\ UNCHANGED <<sessionVars, toolVars, history, historyIndex, isDrawing, strokes, clears,
                   nextSid, maskLog, editVars, restVars, otherVars>>

\* renderCanvas finding another display size: assigning the canvas size clears
\* both canvases, and the mask is redrawn from the cursor's snapshot.
CanvasResize ==
    /\ CanvasMounted
    /\ committedImage # 0
    /\ redrawMask(history, historyIndex)
    /\ UNCHANGED <<sessionVars, toolVars, history, historyIndex, isDrawing, strokes, clears,
                   nextSid, maskLog, editVars, restVars, otherVars>>

SetActiveTool(t) ==
    /\ CanvasMounted
    /\ ~isDrawing
    /\ activeTool' = t
    /\ UNCHANGED <<sessionVars, isCropping, cropBox, cropVars, adjustVars, viewVars, maskVars,
                   maskLog, editVars, restVars, otherVars>>

handleStartCrop ==
    /\ CanvasMounted
    /\ ~isDrawing
    /\ activeTool = "transform" /\ editedImageData = NoResult /\ ~isCropping
    /\ isCropping' = TRUE
    /\ cropBox' = [x |-> (10 * CanvasW - 8 * CanvasW) \div 2,
                   y |-> (10 * CanvasH - 8 * CanvasH) \div 2,
                   width |-> 8 * CanvasW,
                   height |-> 8 * CanvasH]
    /\ rawBox' = NoBox
    /\ UNCHANGED <<sessionVars, activeTool, draggingHandle, dragStartPos, nDrags, cropLoads,
                   nCrops, adjustVars, viewVars, maskVars, maskLog, editVars, restVars,
                   otherVars>>

handleCancelCrop_KeepsBox ==
    /\ CanvasMounted
    /\ ~isDrawing
    /\ activeTool = "transform" /\ editedImageData = NoResult /\ isCropping
    /\ isCropping' = FALSE
    /\ rawBox' = NoBox
    /\ UNCHANGED <<sessionVars, activeTool, cropBox, draggingHandle, dragStartPos, nDrags,
                   cropLoads, nCrops, adjustVars, viewVars, maskVars, maskLog, editVars,
                   restVars, otherVars>>

handleCancelCrop ==
    /\ CanvasMounted
    /\ ~isDrawing
    /\ activeTool = "transform" /\ editedImageData = NoResult /\ isCropping
    /\ isCropping' = FALSE
    /\ cropBox' = NoBox
    /\ rawBox' = NoBox
    /\ UNCHANGED <<sessionVars, activeTool, draggingHandle, dragStartPos, nDrags, cropLoads,
                   nCrops, adjustVars, viewVars, maskVars, maskLog, editVars, restVars,
                   otherVars>>

\* ------------------------------------------------------------ the crop box
CropHandle == {"move", "nw", "n", "ne", "e", "se", "s", "sw", "w"}

\* handle.includes(ch) for a resize handle.
Includes(handle, ch) ==
    CASE ch = "n" -> handle \in {"nw", "n", "ne"}
      [] ch = "s" -> handle \in {"sw", "s", "se"}
      [] ch = "w" -> handle \in {"nw", "w", "sw"}
      [] ch = "e" -> handle \in {"ne", "e", "se"}

Abs(n) == IF n < 0 THEN -n ELSE n

\* The box of a drag step before its normalisation.
DragBox_MovesOppositeEdge(box, handle, dx, dy) ==
    IF handle = "move"
    THEN [box EXCEPT !.x = @ + dx, !.y = @ + dy]
    ELSE [x |-> box.x + (IF Includes(handle, "w") THEN dx ELSE 0),
          y |-> box.y + (IF Includes(handle, "n") THEN dy ELSE 0),
          width |-> box.width + (IF Includes(handle, "e") THEN dx ELSE 0),
          height |-> box.height + (IF Includes(handle, "s") THEN dy ELSE 0)]

DragBox(box, handle, dx, dy) ==
    IF handle = "move"
    THEN [box EXCEPT !.x = @ + dx, !.y = @ + dy]
    ELSE [x |-> box.x + (IF Includes(handle, "w") THEN dx ELSE 0),
          y |-> box.y + (IF Includes(handle, "n") THEN dy ELSE 0),
          width |-> box.width + (IF Includes(handle, "e") THEN dx ELSE 0)
                              - (IF Includes(handle, "w") THEN dx ELSE 0),
          height |-> box.height + (IF Includes(handle, "s") THEN dy ELSE 0)
                                - (IF Includes(handle, "n") THEN dy ELSE 0)]

\* Negative extents are turned round.
Normalize_AbsOnly(box) == [box EXCEPT !.width = Abs(@), !.height = Abs(@)]

Normalize(box) ==
    [x |-> IF box.width < 0 THEN box.x + box.width ELSE box.x,
     y |-> IF box.height < 0 THEN box.y + box.height ELSE box.y,
     width |-> Abs(box.width),
     height |-> Abs(box.height)]

\* Where the mouse may be, relative to the display canvas and in tenths of a
\* pixel: on it, and to either side of it.
MousePositions ==
    {[x |-> px, y |-> py] : px \in {-20, CanvasW, 10 * CanvasW + 20},
                            py \in {-20, 10 * CanvasH + 20}}

\* Where a handle is drawn; the overlay itself is the 'move' handle.
HandlePos(box, handle) ==
    [x |-> IF Includes(handle, "w") THEN box.x
           ELSE IF Includes(handle, "e") THEN box.x + box.width
           ELSE box.x + box.width \div 2,
     y |-> IF Includes(handle, "n") THEN box.y
           ELSE IF Includes(handle, "s") THEN box.y + box.height
           ELSE box.y + box.height \div 2]

\* The crop overlay is rendered.
CropOverlay == CanvasMounted /\ isCropping /\ cropBox # NoBox

\* onMouseDown of the overlay or of one of its handles.
CropMouseDown(handle) ==
    /\ CropOverlay
    /\ ~isDrawing
    /\ draggingHandle = "none"
    /\ draggingHandle' = handle
    /\ dragStartPos' = HandlePos(cropBox, handle)
    /\ UNCHANGED <<sessionVars, activeTool, isCropping, cropBox, rawBox, nDrags, cropLoads,
                   nCrops, adjustVars, viewVars, maskVars, maskLog, editVars, restVars,
                   otherVars>>

\* The window's mousemove listener.
CropMouseMove(pos) ==
    /\ isOpen
    /\ nDrags < MaxDrags
    /\ ~(~isCropping \/ draggingHandle = "none" \/ cropBox = NoBox)
    /\ LET dx == pos.x - dragStartPos.x
           dy == pos.y - dragStartPos.y
           newBox == DragBox(cropBox, draggingHandle, dx, dy)
       IN  /\ rawBox' = newBox
           /\ cropBox' = Normalize(newBox)
    /\ dragStartPos' = pos
    /\ nDrags' = nDrags + 1
    /\ UNCHANGED <<sessionVars, activeTool, isCropping, draggingHandle, cropLoads, nCrops,
                   adjustVars, viewVars, maskVars, maskLog, editVars, restVars, otherVars>>

\* The window's mouseup listener.
CropMouseUp ==
    /\ draggingHandle # "none"
    /\ draggingHandle' = "none"
    /\ UNCHANGED <<sessionVars, activeTool, isCropping, cropBox, dragStartPos, rawBox, nDrags,
                   cropLoads, nCrops, adjustVars, viewVars, maskVars, maskLog, editVars,
                   restVars, otherVars>>

\* The image a crop of image i decodes to.
CropOf(i) == -Abs(i)

\* handleApplyCrop up to newImage.src = dataUrl; a canvas of no extent gives a
\* data URL that does not decode.
handleApplyCrop ==
    /\ CanvasMounted
    /\ ~isDrawing
    /\ activeTool = "transform" /\ editedImageData = NoResult /\ isCropping
    /\ nCrops < MaxCrops
    /\ ~(committedImage = 0 \/ cropBox = NoBox)
    /\ nCrops' = nCrops + 1
    /\ cropLoads' = cropLoads \cup {[id |-> nCrops + 1, image |-> CropOf(committedImage),
                                     decodes |-> cropBox.width > 0 /\ cropBox.height > 0]}
    /\ UNCHANGED <<sessionVars, activeTool, isCropping, cropBox, draggingHandle, dragStartPos,
                   rawBox, nDrags, adjustVars, viewVars, maskVars, maskLog, editVars, restVars,
                   otherVars>>

\* newImage.onload of handleApplyCrop.
CropImageLoaded(id) ==
    \E l \in cropLoads :
        /\ l.id = id
        /\ l.decodes
        /\ cropLoads' = cropLoads \ {l}
        /\ committedImage' = l.image
        /\ resetTransformsAndAdjustments
        /\ UNCHANGED <<isOpen, imageData, sessions, srcLoads, activeTool, draggingHandle,
                       dragStartPos, rawBox, nDrags, nCrops, viewVars, maskVars, maskLog,
                       editVars, restVars, otherVars>>

\* ------------------------------------------------- transforms, adjustments, view
\* A control of a tool's settings panel is shown.
PanelShown(tool) == CanvasMounted /\ ~isDrawing /\ editedImageData = NoResult /\ activeTool = tool

Adjusts == nAdjust' = nAdjust + 1 /\ UNCHANGED <<zoom, panOffset>>

\* The number of changes explored.
MayAdjust == nAdjust < MaxAdjust

OtherThanView ==
    <<sessionVars, activeTool, isCropping, cropBox, cropVars, maskVars, maskLog, editVars,
      restVars, otherVars>>

SetRotation(v) ==
    /\ PanelShown("transform") /\ ~isCropping /\ ~isGenerating
    /\ Adjusts
    /\ rotation' = v
    /\ UNCHANGED <<OtherThanView, brightness, contrast, saturation, uniformScale, flipScale,
                   activeFilter>>

SetUniformScale(v) ==
    /\ PanelShown("transform") /\ ~isCropping /\ ~isGenerating
    /\ Adjusts
    /\ uniformScale' = v
    /\ UNCHANGED <<OtherThanView, brightness, contrast, saturation, rotation, flipScale,
                   activeFilter>>

\* The remainder operator of JavaScript: the result has the sign of the dividend.
JsRem(a, n) == IF a < 0 THEN -((-a) % n) ELSE a % n

Rotate90 ==
    /\ PanelShown("transform") /\ ~isCropping
    /\ Adjusts
    /\ rotation' = JsRem(rotation + 90, 360)
    /\ UNCHANGED <<OtherThanView, brightness, contrast, saturation, uniformScale, flipScale,
                   activeFilter>>

FlipH ==
    /\ PanelShown("transform") /\ ~isCropping
    /\ Adjusts
    /\ flipScale' = [flipScale EXCEPT !.x = @ * (-1)]
    /\ UNCHANGED <<OtherThanView, brightness, contrast, saturation, rotation, uniformScale,
                   activeFilter>>

FlipV ==
    /\ PanelShown("transform") /\ ~isCropping
    /\ Adjusts
    /\ flipScale' = [flipScale EXCEPT !.y = @ * (-1)]
    /\ UNCHANGED <<OtherThanView, brightness, contrast, saturation, rotation, uniformScale,
                   activeFilter>>

ResetTransforms ==
    /\ PanelShown("transform") /\ ~isCropping
    /\ Adjusts
    /\ rotation' = 0
    /\ uniformScale' = 100
    /\ flipScale' = NoFlip
    /\ UNCHANGED <<OtherThanView, brightness, contrast, saturation, activeFilter>>

SetBrightness(v) ==
    /\ PanelShown("adjust") /\ ~isGenerating
    /\ Adjusts
    /\ brightness' = v
    /\ UNCHANGED <<OtherThanView, contrast, saturation, rotation, uniformScale, flipScale,
                   activeFilter>>

SetContrast(v) ==
    /\ PanelShown("adjust") /\ ~isGenerating
    /\ Adjusts
    /\ contrast' = v
    /\ UNCHANGED <<OtherThanView, brightness, saturation, rotation, uniformScale, flipScale,
                   activeFilter>>

SetSaturation(v) ==
    /\ PanelShown("adjust") /\ ~isGenerating
    /\ Adjusts
    /\ saturation' = v
    /\ UNCHANGED <<OtherThanView, brightness, contrast, rotation, uniformScale, flipScale,
                   activeFilter>>

SetActiveFilter(style) ==
    /\ PanelShown("filters")
    /\ Adjusts
    /\ activeFilter' = style
    /\ UNCHANGED <<OtherThanView, brightness, contrast, saturation, rotation, uniformScale,
                   flipScale>>

Least(a, b) == IF a < b THEN a ELSE b
Greatest(a, b) == IF a > b THEN a ELSE b

ZoomIn ==
    /\ CanvasMounted /\ ~isDrawing
    /\ nAdjust' = nAdjust + 1
    /\ zoom' = Least((zoom * 5) \div 4, 8 * ZoomUnit)
    /\ UNCHANGED <<OtherThanView, adjustVars, panOffset>>

ZoomOut_NoFloor ==
    /\ CanvasMounted /\ ~isDrawing
    /\ nAdjust' = nAdjust + 1
    /\ zoom' = (zoom * 4) \div 5
    /\ UNCHANGED <<OtherThanView, adjustVars, panOffset>>

ZoomOut ==
    /\ CanvasMounted /\ ~isDrawing
    /\ nAdjust' = nAdjust + 1
    /\ zoom' = Greatest((zoom * 4) \div 5, ZoomUnit \div 5)
    /\ UNCHANGED <<OtherThanView, adjustVars, panOffset>>

ResetView ==
    /\ CanvasMounted /\ ~isDrawing
    /\ nAdjust' = nAdjust + 1
    /\ zoom' = ZoomUnit
    /\ panOffset' = Origin
    /\ UNCHANGED <<OtherThanView, adjustVars>>

\* filterPresets' styles, by name.
FilterStyles == {"none", "grayscale"}

\* The canvas mouse handlers among tool switches and crop mode. A stroke lasts
\* while the mouse button is held over the canvas (mouseup and mouseleave end
\* it), so the buttons are clicked between strokes.
NextTools ==
    \/ OpenEditor
    \/ CloseEditor
    \/ \E i \in 1..MaxSessions : ImageLoaded(i)
    \/ BlankInit
    \/ MayStroke /\ startDrawing
    \/ draw
    \/ stopDrawing
    \/ \E px \in SUBSET Strokes : MaskLoadDone(px)
    \/ \E t \in EditorTool : SetActiveTool(t)
    \/ handleStartCrop
    \/ handleCancelCrop

\* The mask history among the controls of transforms, adjustments and zoom.
NextFrame ==
    \/ OpenEditor
    \/ \E i \in 1..MaxSessions : ImageLoaded(i)
    \/ BlankInit
    \/ MayStroke /\ startDrawing
    \/ draw
    \/ stopDrawing
    \/ undo
    \/ redo
    \/ \E px \in SUBSET Strokes : MaskLoadDone(px)
    \/ \E t \in {"brush", "transform", "adjust", "filters"} : SetActiveTool(t)
    \/ \E v \in {0, 45} : MayAdjust /\ SetRotation(v)
    \/ \E v \in {100, 150} : MayAdjust /\ SetUniformScale(v)
    \/ MayAdjust /\ Rotate90
    \/ MayAdjust /\ FlipH
    \/ MayAdjust /\ FlipV
    \/ MayAdjust /\ ResetTransforms
    \/ \E v \in {100, 120} : MayAdjust /\ SetBrightness(v)
    \/ \E v \in {100, 80} : MayAdjust /\ SetContrast(v)
    \/ \E v \in {100, 0} : MayAdjust /\ SetSaturation(v)
    \/ \E style \in FilterStyles : MayAdjust /\ SetActiveFilter(style)
    \/ MayAdjust /\ ZoomIn
    \/ MayAdjust /\ ZoomOut
    \/ MayAdjust /\ ResetView

\* The positions of the rotation slider explored (min -180, max 180).
RotationSlider == {-180, -90, 0, 30, 45, 180}

\* The rotation and scale controls of the transform panel.
NextTurn ==
    \/ OpenEditor
    \/ CloseEditor
    \/ \E i \in 1..MaxSessions : ImageLoaded(i)
    \/ \E t \in {"brush", "transform"} : SetActiveTool(t)
    \/ \E v \in RotationSlider : nAdjust < MaxTurns /\ SetRotation(v)
    \/ \E v \in {50, 100, 130, 150} : nAdjust < MaxTurns /\ SetUniformScale(v)
    \/ nAdjust < MaxTurns /\ Rotate90
    \/ nAdjust < MaxTurns /\ ResetTransforms

\* Rotation, flips, uniform scale, filter, brightness and zoom combined in one
\* preview. One zoom step from the unzoomed view keeps the exact fractions of
\* the drawing small.
MayBake == nAdjust < MaxBakes

NextBake ==
    \/ OpenEditor
    \/ \E i \in 1..MaxSessions : ImageLoaded(i)
    \/ \E t \in {"transform", "adjust", "filters"} : SetActiveTool(t)
    \/ MayBake /\ SetRotation(45)
    \/ MayBake /\ SetUniformScale(150)
    \/ MayBake /\ Rotate90
    \/ MayBake /\ FlipH
    \/ MayBake /\ FlipV
    \/ MayBake /\ SetBrightness(120)
    \/ MayBake /\ SetActiveFilter("grayscale")
    \/ MayBake /\ zoom = ZoomUnit /\ ZoomIn

\* Strokes ended in succession, by mouseup, by mouseleave or by both.
NextStroke ==
    \/ OpenEditor
    \/ CloseEditor
    \/ \E i \in 1..MaxSessions : ImageLoaded(i)
    \/ BlankInit
    \/ strokes < MaxRuns /\ startDrawing
    \/ draw
    \/ stopDrawing
    \/ \E px \in SUBSET (1..MaxRuns) : MaskLoadDone(px)

\* Dragging the crop box about.
NextDrag ==
    \/ OpenEditor
    \/ \E i \in 1..MaxSessions : ImageLoaded(i)
    \/ SetActiveTool("transform")
    \/ handleStartCrop
    \/ handleCancelCrop
    \/ \E handle \in CropHandle : CropMouseDown(handle)
    \/ \E pos \in MousePositions : CropMouseMove(pos)
    \/ CropMouseUp

\* Crop mode from start to cancel or apply, across tool switches and sessions.
NextCrop ==
    \/ OpenEditor
    \/ CloseEditor
    \/ \E i \in 1..MaxSessions : ImageLoaded(i)
    \/ \E t \in {"brush", "transform"} : SetActiveTool(t)
    \/ handleStartCrop
    \/ handleCancelCrop
    \/ CropMouseDown("se")
    \/ \E pos \in MousePositions : CropMouseMove(pos)
    \/ CropMouseUp
    \/ handleApplyCrop
    \/ \E id \in 1..MaxCrops : CropImageLoaded(id)

\* Cropping among the controls of transforms, adjustments and zoom.
NextView ==
    \/ OpenEditor
    \/ CloseEditor
    \/ \E i \in 1..MaxSessions : ImageLoaded(i)
    \/ \E t \in EditorTool : SetActiveTool(t)
    \/ handleStartCrop
    \/ handleCancelCrop
    \/ handleApplyCrop
    \/ \E id \in 1..MaxCrops : CropImageLoaded(id)
    \/ \E v \in {0, 45} : MayAdjust /\ SetRotation(v)
    \/ \E v \in {100, 150} : MayAdjust /\ SetUniformScale(v)
    \/ MayAdjust /\ Rotate90
    \/ MayAdjust /\ FlipH
    \/ MayAdjust /\ FlipV
    \/ MayAdjust /\ ResetTransforms
    \/ \E v \in {100, 120} : MayAdjust /\ SetBrightness(v)
    \/ \E v \in {100, 80} : MayAdjust /\ SetContrast(v)
    \/ \E v \in {100, 0} : MayAdjust /\ SetSaturation(v)
    \/ \E style \in FilterStyles : MayAdjust /\ SetActiveFilter(style)
    \/ MayAdjust /\ ZoomIn
    \/ MayAdjust /\ ZoomOut
    \/ MayAdjust /\ ResetView

InitEdit ==
    /\ prompt = <<>>
    /\ editedImageData = NoResult
    /\ isGenerating = FALSE
    /\ error = NoError
    /\ calls = {}
    /\ nCalls = 0
    /\ failedCalls = {}

\* ------------------------------------------------- the editor's remote calls
\* Text is a sequence of tokens; a token " " is a white-space character.
IsSpace(tok) == tok = " "

RECURSIVE TrimLeft(_)
TrimLeft(s) == IF s # <<>> /\ IsSpace(Head(s)) THEN TrimLeft(Tail(s)) ELSE s

RECURSIVE TrimRight(_)
TrimRight(s) ==
    IF s # <<>> /\ IsSpace(s[Len(s)]) THEN TrimRight(SubSeq(s, 1, Len(s) - 1)) ELSE s

\* String.prototype.trim
trim(s) == TrimRight(TrimLeft(s))

\* What the user may type into the editor's prompt box.
Prompts == {<<>>, <<" ">>, <<"sky", " ">>}

aiFilterPresets == {<<"Ghibli">>, <<"Pixel", " ", "Art">>}

\* Messages of the errors the image service rejects an edit with.
EditFailures == {<<"No edited image data found in the response.">>, <<"quota exceeded">>}

Call(id) == {c \in calls : c.id = id}

CallFails_NoReset(c, msg) ==
    /\ error' = IF msg = NoError THEN error ELSE msg
    /\ calls' = calls \ {c}
    /\ UNCHANGED <<prompt, editedImageData, nCalls, isGenerating>>

\* The finally block of the three handlers, reached through the catch block
\* when msg is a message and directly when it is NoError.
CallFails(c, msg) ==
    /\ error' = IF msg = NoError THEN error ELSE msg
    /\ isGenerating' = FALSE
    /\ calls' = calls \ {c}
    /\ UNCHANGED <<prompt, editedImageData, nCalls>>

SetPrompt(p) ==
    /\ CanvasMounted
    /\ editedImageData = NoResult
    /\ activeTool \in {"brush", "expand"}
    /\ prompt' = p
    /\ UNCHANGED <<sessionVars, toolVars, maskVars, maskLog, editedImageData, isGenerating,
                   error, calls, nCalls, failedCalls, restVars, otherVars>>

\* handleSubmit up to its first await; baked = getBakedImageData() gave an image.
\* The form and the Generate button are rendered for the brush and expand tools
\* while there is no result; a failure before the first await runs catch and
\* finally within the same handler run.
handleSubmit(baked) ==
    /\ CanvasMounted
    /\ editedImageData = NoResult
    /\ activeTool \in {"brush", "expand"}
    /\ nCalls < MaxCalls
    /\ ~(trim(prompt) = <<>> \/ isGenerating \/ imageData = 0 \/ committedImage = 0)
    /\ nCalls' = nCalls + 1
    /\ IF baked
       THEN /\ isGenerating' = TRUE
            /\ error' = NoError
            /\ calls' = calls \cup {[id |-> nCalls + 1, kind |-> "submit", pc |-> "decode",
                                     sess |-> imageData, src |-> committedImage,
                                     tool |-> activeTool, label |-> prompt]}
       ELSE /\ isGenerating' = FALSE
            /\ error' = <<"Could not process current image state.">>
            /\ calls' = calls
    /\ UNCHANGED <<sessionVars, toolVars, maskVars, maskLog, prompt, editedImageData,
                   failedCalls, restVars, otherVars>>

\* bakedImageElement.onload: handleSubmit from its first await to the remote
\* call; composed = the mask or the expanded image could be produced.
BakedImageLoaded(c, composed) ==
    /\ c \in calls
    /\ c.pc = "decode"
    /\ IF c.tool \in {"brush", "expand"}
       THEN IF composed
            THEN /\ calls' = (calls \ {c}) \cup {[c EXCEPT !.pc = "remote"]}
                 /\ UNCHANGED <<prompt, editedImageData, isGenerating, error, nCalls>>
            ELSE CallFails(c, IF c.tool = "brush"
                              THEN <<"Failed to create mask data">>
                              ELSE <<"Failed to create expanded image data">>)
       ELSE CallFails(c, NoError)
    /\ UNCHANGED <<sessionVars, toolVars, maskVars, maskLog, failedCalls, restVars, otherVars>>

\* bakedImageElement.onerror: the rejection is an event, not an Error.
BakedImageFailed(c) ==
    /\ c \in calls
    /\ c.pc = "decode"
    /\ CallFails(c, <<"An unknown error occurred.">>)
    /\ UNCHANGED <<sessionVars, toolVars, maskVars, maskLog, failedCalls, restVars, otherVars>>

\* handleRemoveBackgroundClick and handleApplyAIFilter up to the remote call.
StartCall(kind, label, baked) ==
    /\ nCalls < MaxCalls
    /\ ~(isGenerating \/ committedImage = 0)
    /\ nCalls' = nCalls + 1
    /\ IF baked
       THEN /\ isGenerating' = TRUE
            /\ error' = NoError
            /\ calls' = calls \cup {[id |-> nCalls + 1, kind |-> kind, pc |-> "remote",
                                     sess |-> imageData, src |-> committedImage,
                                     tool |-> activeTool, label |-> label]}
       ELSE /\ isGenerating' = FALSE
            /\ error' = <<"Could not process current image state.">>
            /\ calls' = calls
    /\ UNCHANGED <<sessionVars, toolVars, maskVars, maskLog, prompt, editedImageData,
                   failedCalls, restVars, otherVars>>

handleRemoveBackgroundClick(baked) ==
    /\ CanvasMounted
    /\ editedImageData = NoResult
    /\ activeTool = "removeBackground"
    /\ StartCall("removeBackground", <<"Remove background">>, baked)

handleApplyAIFilter(preset, baked) ==
    /\ CanvasMounted
    /\ editedImageData = NoResult
    /\ activeTool = "aiFilters"
    /\ StartCall("aiFilter", preset, baked)

\* The remote call returns an image: the rest of the try block, and finally.
CallResolves(c) ==
    /\ c \in calls
    /\ c.pc = "remote"
    /\ editedImageData' = [sess |-> c.sess, src |-> c.src]
    /\ prompt' = IF c.kind = "submit" THEN prompt ELSE c.label
    /\ isGenerating' = FALSE
    /\ calls' = calls \ {c}
    /\ UNCHANGED <<sessionVars, toolVars, maskVars, maskLog, error, nCalls, failedCalls,
                   restVars, otherVars>>

\* The remote call throws: catch, and finally.
CallRejects(c, msg) ==
    /\ c \in calls
    /\ c.pc = "remote"
    /\ CallFails(c, IF c.kind = "removeBackground"
                    THEN <<"Background removal failed: ">> \o msg
                    ELSE msg)
    /\ failedCalls' = failedCalls \cup {c.id}
    /\ UNCHANGED <<sessionVars, toolVars, maskVars, maskLog, restVars, otherVars>>

CallStep(id) ==
    \E c \in Call(id) :
        \/ \E composed \in BOOLEAN : BakedImageLoaded(c, composed)
        \/ BakedImageFailed(c)
        \/ CallResolves(c)
        \/ \E msg \in EditFailures : CallRejects(c, msg)

NextEdit ==
    \/ OpenEditor
    \/ CloseEditor
    \/ \E i \in 1..MaxSessions : ImageLoaded(i)
    \/ \E t \in EditorTool : SetActiveTool(t)
    \/ \E p \in Prompts : SetPrompt(p)
    \/ \E baked \in BOOLEAN : handleSubmit(baked)
    \/ \E baked \in BOOLEAN : handleRemoveBackgroundClick(baked)
    \/ \E preset \in aiFilterPresets, baked \in BOOLEAN : handleApplyAIFilter(preset, baked)
    \/ \E id \in 1..MaxCalls : CallStep(id)

\* ------------------------------------------- the chat and its conversation
NoParams == [aspectRatio |-> "", style |-> "", negativePrompt |-> <<>>]

\* A message: id 0 is 'initial', id k > 0 is 'db-k', id -1 is a temporary or error
\* id; image 0 is no image; by is the handler invocation that added the message
\* (0: none of those modelled here).
InitialMessage ==
    [id |-> 0, role |-> "model", text |-> <<"Hello!">>, image |-> 0,
     params |-> NoParams, by |-> 0]

ErrorMessage(text, c) ==
    [id |-> -1, role |-> "error", text |-> text, image |-> 0, params |-> NoParams,
     by |-> c.id]

\* The row an earlier visit left in the store: a model image.
OldRow(k) ==
    [id |-> k, role |-> "model", text |-> <<>>, image |-> k, params |-> NoParams, by |-> 0]

\* What the user may have typed into the input bar when sending.
InputPrompts == {<<" ">>, <<" ", "cube">>}

GenerationParams ==
    {[aspectRatio |-> a, style |-> "Default", negativePrompt |-> <<>>] : a \in {"1:1", "16:9"}}

\* Messages of the errors the image service rejects a chat call with.
ChatFailures == {<<>>, <<"The AI did not return an image.">>}

ChatCall(id) == {c \in chatCalls : c.id = id}

\* The image messages shown with enhance and remove-background buttons.
ImageBubbles == {i \in 1..Len(messages) : messages[i].role = "model" /\ messages[i].image # 0}

\* The image a chat call returns.
ResultImage(c) == 1 + c.id

\* The most messages the conversation can hold.
MaxMessages == 3 + 2 * MaxChatCalls

\* An earlier visit of the page saved an image: the store holds it when this
\* visit begins.
EarlierVisit ==
    /\ ~historyLoaded
    /\ nChatCalls = 0
    /\ stored = <<>>
    /\ stored' = <<OldRow(1)>>
    /\ nextKey' = 2
    /\ UNCHANGED <<sessionVars, toolVars, maskVars, maskLog, editVars, isLoading, messages,
                   historyLoaded, chatCalls, nChatCalls, finished, removalLog, svcVars,
                   otherVars>>

\* loadHistory, from the store's answer on.
LoadHistory(ok) ==
    /\ ~historyLoaded
    /\ historyLoaded' = TRUE
    /\ messages' = IF ok
                   THEN IF Len(stored) > 0 THEN <<messages[1]>> \o stored ELSE messages
                   ELSE Append(messages,
                               [id |-> -1, role |-> "error",
                                text |-> <<"Could not load saved conversation history.">>,
                                image |-> 0, params |-> NoParams, by |-> 0])
    /\ UNCHANGED <<sessionVars, toolVars, maskVars, maskLog, editVars, isLoading, stored,
                   chatCalls, nChatCalls, finished, nextKey, removalLog, svcVars,
                   otherVars>>

\* A chat handler up to its first await (addMessage of the user's message).
\* The open editor (fixed inset-0) covers the chat's controls.
StartChatCall(kind, text, image, params) ==
    /\ ~isOpen
    /\ nChatCalls < MaxChatCalls
    /\ nChatCalls' = nChatCalls + 1
    /\ isLoading' = TRUE
    /\ chatCalls' = chatCalls \cup {[id |-> nChatCalls + 1, kind |-> kind, pc |-> "saveUser",
                                     text |-> text, image |-> image, params |-> params,
                                     userSaved |-> FALSE]}
    /\ UNCHANGED <<sessionVars, toolVars, maskVars, maskLog, editVars, messages, stored,
                   historyLoaded, finished, nextKey, removalLog, svcVars, otherVars>>

\* InputBar.handleSendMessage and App.handleSendMessage.
handleSendMessage(p, params) ==
    /\ ~(trim(p) = <<>> \/ isLoading)
    /\ StartChatCall("send", trim(p), 0, params)

handleStartEnhance(i) ==
    /\ i \in ImageBubbles
    /\ StartChatCall("enhance", <<"Enhance this image">>, messages[i].image, NoParams)

handleStartRemoveBackground(i) ==
    /\ i \in ImageBubbles
    /\ StartChatCall("removeBackground", <<"Remove the background of this image">>,
                     messages[i].image, NoParams)

\* The user message a handler hands to addMessage.
UserMessageData_NoParams(c) ==
    [role |-> "user", text |-> c.text, image |-> c.image, params |-> NoParams]

UserMessageData(c) ==
    [role |-> "user", text |-> c.text, image |-> c.image, params |-> c.params]

ModelMessageData(c) ==
    [role |-> "model", text |-> <<>>, image |-> ResultImage(c), params |-> NoParams]

addMessage_StoresError(data, c, ok) ==
    LET m == IF ok
             THEN [id |-> nextKey, role |-> data.role, text |-> data.text,
                   image |-> data.image, params |-> data.params, by |-> c.id]
             ELSE [ErrorMessage(<<"Failed to save your message.">>, c) EXCEPT !.id = nextKey]
    IN /\ stored' = Append(stored, m)
       /\ nextKey' = nextKey + 1
       /\ messages' = Append(messages, m)

\* addMessage once the store has answered: the row is written and the message
\* appended, or an error message is appended.
addMessage(data, c, ok) ==
    IF ok
    THEN LET m == [id |-> nextKey, role |-> data.role, text |-> data.text,
                   image |-> data.image, params |-> data.params, by |-> c.id]
         IN /\ stored' = Append(stored, m)
            /\ nextKey' = nextKey + 1
            /\ messages' = Append(messages, m)
    ELSE /\ stored' = stored
         /\ nextKey' = nextKey
         /\ messages' = Append(messages, ErrorMessage(<<"Failed to save your message.">>, c))

\* The handler returns: its finally block.
ChatCallReturns(c, outcome) ==
    /\ isLoading' = FALSE
    /\ chatCalls' = chatCalls \ {c}
    /\ finished' = finished \cup {[id |-> c.id, kind |-> c.kind, text |-> c.text,
                                   params |-> c.params, userSaved |-> c.userSaved,
                                   outcome |-> outcome]}

\* The handler from the answer to its first addMessage to the remote call.
UserMessageSaved(c, ok) ==
    /\ c \in chatCalls
    /\ c.pc = "saveUser"
    /\ addMessage(UserMessageData(c), c, ok)
    /\ IF ~ok /\ c.kind = "send"
       THEN ChatCallReturns(c, "unsaved")
       ELSE /\ chatCalls' = (chatCalls \ {c}) \cup {[c EXCEPT !.pc = "remote", !.userSaved = ok]}
            /\ UNCHANGED <<isLoading, finished>>
    /\ UNCHANGED <<sessionVars, toolVars, maskVars, maskLog, editVars, historyLoaded,
                   nChatCalls, removalLog, svcVars, otherVars>>

\* The remote call returns an image: the handler awaits the second addMessage.
RemoteResolves(c) ==
    /\ c \in chatCalls
    /\ c.pc = "remote"
    /\ chatCalls' = (chatCalls \ {c}) \cup {[c EXCEPT !.pc = "saveModel"]}
    /\ UNCHANGED <<sessionVars, toolVars, maskVars, maskLog, editVars, isLoading, messages,
                   stored, historyLoaded, nChatCalls, finished, nextKey, removalLog, svcVars,
                   otherVars>>

\* The remote call throws: the catch block adds a temporary error message.
RemoteRejects(c, msg) ==
    /\ c \in chatCalls
    /\ c.pc = "remote"
    /\ LET prefix == IF c.kind = "enhance" THEN <<"Enhancement failed: ">>
                     ELSE IF c.kind = "removeBackground"
                          THEN <<"Background removal failed: ">>
                          ELSE <<>>
           message == prefix \o msg
       IN messages' = Append(messages,
                             ErrorMessage(IF message = <<>>
                                          THEN <<"An unknown error occurred.">>
                                          ELSE message, c))
    /\ ChatCallReturns(c, "error")
    /\ UNCHANGED <<sessionVars, toolVars, maskVars, maskLog, editVars, stored, historyLoaded,
                   nChatCalls, nextKey, removalLog, svcVars, otherVars>>

\* The second addMessage has answered: the rest of the try block, and finally.
ModelMessageSaved(c, ok) ==
    /\ c \in chatCalls
    /\ c.pc = "saveModel"
    /\ addMessage(ModelMessageData(c), c, ok)
    /\ ChatCallReturns(c, IF ok THEN "image" ELSE "modelUnsaved")
    /\ UNCHANGED <<sessionVars, toolVars, maskVars, maskLog, editVars, historyLoaded,
                   nChatCalls, removalLog, svcVars, otherVars>>

ChatCallStep(id) ==
    \E c \in ChatCall(id) :
        \/ \E ok \in BOOLEAN : UserMessageSaved(c, ok)
        \/ RemoteResolves(c)
        \/ \E msg \in ChatFailures : RemoteRejects(c, msg)
        \/ \E ok \in BOOLEAN : ModelMessageSaved(c, ok)

\* The id of a temporary message is never a 'db-' id.
TempErrorMessage(text) ==
    [id |-> -1, role |-> "error", text |-> text, image |-> 0, params |-> NoParams, by |-> 0]

NoRemoval == [op |-> "none", ok |-> TRUE]

\* The messages whose bubble has a delete button.
Deletable == {i \in ImageBubbles : messages[i].id > 0}

\* confirmDeleteMessage and the hook's deleteMessage once the store has answered:
\* the row is deleted and the message filtered out, or a temporary error message
\* is appended (a failed transaction changes no row).
deleteMessage(i, ok) ==
    /\ ~isOpen
    /\ nRemovals < MaxRemovals
    /\ i \in Deletable
    /\ nRemovals' = nRemovals + 1
    /\ lastRemoval' = [op |-> "delete", ok |-> ok]
    /\ IF ok
       THEN /\ stored' = SelectSeq(stored, LAMBDA r : r.id # messages[i].id)
            /\ messages' = SelectSeq(messages, LAMBDA m : m.id # messages[i].id)
       ELSE /\ stored' = stored
            /\ messages' = Append(messages, TempErrorMessage(<<"Failed to delete the message.">>))
    /\ UNCHANGED <<sessionVars, toolVars, maskVars, maskLog, editVars, isLoading, historyLoaded,
                   chatCalls, nChatCalls, finished, nextKey, svcVars, otherVars>>

\* confirmClearAll and the hook's clearHistory once the store has answered.
clearHistory(ok) ==
    /\ ~isOpen
    /\ nRemovals < MaxRemovals
    /\ nRemovals' = nRemovals + 1
    /\ lastRemoval' = [op |-> "clear", ok |-> ok]
    /\ IF ok
       THEN /\ stored' = <<>>
            /\ messages' = SelectSeq(messages, LAMBDA m : m.id = 0)
       ELSE /\ stored' = stored
            /\ messages' = Append(messages, TempErrorMessage(<<"Failed to clear history.">>))
    /\ UNCHANGED <<sessionVars, toolVars, maskVars, maskLog, editVars, isLoading, historyLoaded,
                   chatCalls, nChatCalls, finished, nextKey, svcVars, otherVars>>

\* The parameters the input bar starts with.
DefaultParams == [aspectRatio |-> "1:1", style |-> "Default", negativePrompt |-> <<>>]

\* The conversation with its store: sending, and deleting and clearing.
NextStore ==
    \/ EarlierVisit
    \/ \E ok \in BOOLEAN : LoadHistory(ok)
    \/ \E p \in InputPrompts : handleSendMessage(p, DefaultParams)
    \/ \E id \in 1..MaxChatCalls : ChatCallStep(id)
    \/ \E i \in 1..(MaxMessages + MaxRemovals), ok \in BOOLEAN : deleteMessage(i, ok)
    \/ \E ok \in BOOLEAN : clearHistory(ok)

NextChat ==
    \/ EarlierVisit
    \/ \E ok \in BOOLEAN : LoadHistory(ok)
    \/ \E p \in InputPrompts, params \in GenerationParams : handleSendMessage(p, params)
    \/ \E i \in 1..MaxMessages : handleStartEnhance(i)
    \/ \E i \in 1..MaxMessages : handleStartRemoveBackground(i)
    \/ \E id \in 1..MaxChatCalls : ChatCallStep(id)

InitChat ==
    /\ isLoading = FALSE
    /\ messages = <<InitialMessage>>
    /\ stored = <<>>
    /\ historyLoaded = FALSE
    /\ chatCalls = {}
    /\ nChatCalls = 0
    /\ finished = {}
    /\ nextKey = 1
    /\ nRemovals = 0
    /\ lastRemoval = NoRemoval

\* ------------------------------------------------------- the image service
\* A value that may be undefined; "" and <<>> are the empty string.
Undefined(empty) == [defined |-> FALSE, val |-> empty]
Defined(v) == [defined |-> TRUE, val |-> v]

\* JavaScript truthiness of a possibly undefined string.
Truthy(v, empty) == v.defined /\ v.val # empty

FinishReasons == {Undefined(""), Defined(""), Defined("STOP"), Defined("SAFETY"),
                  Defined("MAX_TOKENS")}

RECURSIVE TextsOfLength(_)
TextsOfLength(n) ==
    IF n = 0 THEN {<<>>}
    ELSE {Append(s, ch) : s \in TextsOfLength(n - 1), ch \in {" ", "a"}}

\* response.text: undefined, or up to MaxText characters.
ResponseTexts == {Undefined(<<>>)} \cup {Defined(s) : s \in UNION {TextsOfLength(n) : n \in 0..MaxText}}

\* A thrown value, by what the catch blocks look at.
Thrown(hasError, hasApiMessage, apiMessage, isError, message) ==
    [hasError |-> hasError, hasApiMessage |-> hasApiMessage, apiMessage |-> apiMessage,
     isError |-> isError, message |-> message]

ThrownError(message) == Thrown(FALSE, FALSE, <<>>, TRUE, message)

NotThrown == Thrown(FALSE, FALSE, <<>>, FALSE, <<>>)

\* What the remote API may reject with: an API error object, an object whose
\* error field has no message, an Error, and a value that is neither.
Rejections ==
    {Thrown(TRUE, TRUE, <<"Quota exceeded.">>, FALSE, <<>>),
     Thrown(TRUE, FALSE, <<>>, FALSE, <<>>),
     ThrownError(<<"fetch failed">>),
     NotThrown}

Answer(kind, finishReason, text, rejection) ==
    [kind |-> kind, finishReason |-> finishReason, text |-> text, rejection |-> rejection,
     image |-> 0]

\* A response with an image part; image names its inlineData.
ImageAnswer(image) ==
    [kind |-> "image", finishReason |-> Defined("STOP"), text |-> Undefined(<<>>),
     rejection |-> Thrown(FALSE, FALSE, <<>>, FALSE, <<>>), image |-> image]

\* What generateContent may answer.
Answers ==
    {ImageAnswer(image) : image \in {1, 2}}
        \cup {Answer("noImage", fr, t, NotThrown) : fr \in FinishReasons, t \in ResponseTexts}
        \cup {Answer("rejected", Undefined(""), Undefined(<<>>), r) : r \in Rejections}

Idle == [op |-> "none", answer |-> Answer("image", Defined("STOP"), Undefined(<<>>), NotThrown)]
Pending == [kind |-> "pending", message |-> <<>>, image |-> 0]

\* The message built when the response has no image part.
NoImageMessage(op, finishReason, responseText) ==
    LET default == IF op = "generate"
                   THEN <<"The AI did not return an image. This might be due to a safety filter or an issue with the prompt. Please try rephrasing.">>
                   ELSE <<"No edited image data found in the response.">>
        withReason == IF Truthy(finishReason, "") /\ finishReason.val # "STOP"
                      THEN <<"Image generation failed with reason: ", finishReason.val, ".">>
                      ELSE default
    IN IF Truthy(responseText, <<>>) /\ trim(responseText.val) # <<>>
       THEN withReason \o <<" The model responded with: \"">> \o trim(responseText.val) \o <<"\"">>
       ELSE withReason

\* The message of the Error the catch block throws for the value caught.
Rethrow_Fallback(op, caught) ==
    IF op = "generate"
    THEN <<"Failed to generate image due to an unexpected error. Please try again.">>
    ELSE <<"Failed to edit image. An unknown error occurred.">>

Rethrow(op, caught) ==
    IF caught.hasError /\ caught.hasApiMessage THEN caught.apiMessage
    ELSE IF caught.isError THEN caught.message
    ELSE IF op = "generate"
         THEN <<"Failed to generate image due to an unexpected error. Please try again.">>
         ELSE <<"Failed to edit image. An unknown error occurred.">>

\* What is thrown inside the try block, if anything.
ThrownInside(op, answer) ==
    IF answer.kind = "noImage"
    THEN ThrownError(NoImageMessage(op, answer.finishReason, answer.text))
    ELSE answer.rejection

\* A caller invokes the service and the remote API will answer with `answer`.
ServiceRequest(op, answer) ==
    /\ svcIn = Idle
    /\ svcIn' = [op |-> op, answer |-> answer]
    /\ svcOut' = Pending
    /\ svcInner' = NotThrown
    /\ svcEdit' = Pending
    /\ UNCHANGED <<sessionVars, toolVars, maskVars, maskLog, editVars, chatVars, otherVars>>

\* The service function from the remote answer on.
ServiceAnswers(op) ==
    /\ svcIn.op = op
    /\ svcOut = Pending
    /\ IF svcIn.answer.kind = "image"
       THEN /\ svcInner' = NotThrown
            /\ svcOut' = [kind |-> "image", message |-> <<>>, image |-> svcIn.answer.image]
       ELSE /\ svcInner' = ThrownInside(op, svcIn.answer)
            /\ svcOut' = [kind |-> "error",
                          message |-> Rethrow(op, ThrownInside(op, svcIn.answer)),
                          image |-> 0]
    /\ UNCHANGED <<sessionVars, toolVars, maskVars, maskLog, editVars, chatVars, svcIn, svcEdit,
                   otherVars>>

generateImage == ServiceAnswers("generate")

editImage == ServiceAnswers("edit")

\* What a call of editImage gives its caller when the remote API answers `answer`.
EditOutcome(answer) ==
    IF answer.kind = "image"
    THEN [kind |-> "image", message |-> <<>>, image |-> answer.image]
    ELSE [kind |-> "error", message |-> Rethrow("edit", ThrownInside("edit", answer)),
          image |-> 0]

WrapperPrefix(op) ==
    IF op = "enhance" THEN <<"Enhancement failed: ">> ELSE <<"Background removal failed: ">>

Wrapped_NoPrefix(op, edited) == edited

\* enhanceImage / removeBackground around the outcome of their editImage call;
\* what editImage throws is always an Error.
Wrapped(op, edited) ==
    IF edited.kind = "image"
    THEN edited
    ELSE [kind |-> "error", message |-> WrapperPrefix(op) \o edited.message, image |-> 0]

WrapperAnswers(op) ==
    /\ svcIn.op = op
    /\ svcOut = Pending
    /\ svcInner' = IF svcIn.answer.kind = "image"
                   THEN NotThrown
                   ELSE ThrownInside("edit", svcIn.answer)
    /\ svcEdit' = EditOutcome(svcIn.answer)
    /\ svcOut' = Wrapped(op, EditOutcome(svcIn.answer))
    /\ UNCHANGED <<sessionVars, toolVars, maskVars, maskLog, editVars, chatVars, svcIn,
                   otherVars>>

enhanceImage == WrapperAnswers("enhance")

removeBackground == WrapperAnswers("removeBackground")

ServiceOps == {"generate", "edit", "enhance", "removeBackground"}

NextService ==
    \/ \E op \in ServiceOps, answer \in Answers : ServiceRequest(op, answer)
    \/ generateImage
    \/ editImage
    \/ enhanceImage
    \/ removeBackground

InitService ==
    /\ svcIn = Idle
    /\ svcInner = NotThrown
    /\ svcEdit = Pending
    /\ svcOut = Pending

\* ------------------------------------------------------- the upload button
\* A data URL is a sequence of tokens: the characters ",", ":" and ";" and
\* runs of other characters.
Min(S) == CHOOSE i \in S : \A j \in S : i <= j

\* The first index from `from` on at which s has ch, or 0.
IndexOf(s, ch, from) ==
    LET at == {i \in from..Len(s) : s[i] = ch}
    IN  IF at = {} THEN 0 ELSE Min(at)

\* !header || !data, for the first two pieces of result.split(',').
InvalidFormat_HeaderOnly(header, hasData, data) == header = <<>>

InvalidFormat(header, hasData, data) == header = <<>> \/ ~hasData \/ data = <<>>

\* header.match(/:(.*?);/): the leftmost ":" with a ";" after it, and the text up
\* to the first such ";".
MimeTypeMatch(header) ==
    LET colons == {i \in 1..Len(header) :
                      header[i] = ":" /\ \E j \in (i + 1)..Len(header) : header[j] = ";"}
    IN  IF colons = {}
        THEN [matched |-> FALSE, group |-> <<>>]
        ELSE [matched |-> TRUE,
              group |-> SubSeq(header, Min(colons) + 1,
                               IndexOf(header, ";", Min(colons) + 1) - 1)]

FileRejected(message) == [ok |-> FALSE, mimeType |-> <<>>, data |-> <<>>, message |-> message]

\* fileToImageData for a file the reader cannot read, or reads as file.result.
fileToImageData(file) ==
    IF ~file.readable
    THEN FileRejected(<<"ProgressEvent">>)
    ELSE LET result == file.result
             c1 == IndexOf(result, ",", 1)
             c2 == IF c1 = 0 THEN 0 ELSE IndexOf(result, ",", c1 + 1)
             header == IF c1 = 0 THEN result ELSE SubSeq(result, 1, c1 - 1)
             hasData == c1 # 0
             data == IF c1 = 0 THEN <<>>
                     ELSE SubSeq(result, c1 + 1, IF c2 = 0 THEN Len(result) ELSE c2 - 1)
             mimeTypeMatch == MimeTypeMatch(header)
         IN  IF InvalidFormat(header, hasData, data)
             THEN FileRejected(<<"Invalid file format">>)
             ELSE IF ~mimeTypeMatch.matched \/ mimeTypeMatch.group = <<>>
                  THEN FileRejected(<<"Could not determine MIME type">>)
                  ELSE [ok |-> TRUE, mimeType |-> mimeTypeMatch.group, data |-> data,
                        message |-> <<>>]

Readable(result) == [readable |-> TRUE, result |-> result]

\* Files the user may choose: well-formed data URLs, an unreadable file, and
\* data URLs lacking a header, a payload or a MIME type.
GoodFiles ==
    {Readable(<<"data", ":", "image/png", ";", "base64", ",", "AAAA">>),
     Readable(<<"data", ":", "image/png", ";", "base64", ",", "AA", ",", "BB">>)}

BadFiles ==
    {[readable |-> FALSE, result |-> <<>>],
     Readable(<<>>),
     Readable(<<"data", ":">>),
     Readable(<<",", "AAAA">>),
     Readable(<<"data", ":", "image/png", ";", "base64", ",">>),
     Readable(<<"data", ":", "image/png", ";", "base64", ",", ",", "AAAA">>),
     Readable(<<"data", ":", ";", "base64", ",", "AAAA">>),
     Readable(<<"data", "image/png", ",", "AAAA">>),
     Readable(<<"data", ";", "base64", ":", "image/png", ",", "AAAA">>)}

Files == GoodFiles \cup BadFiles

\* handleFileChange up to its await: the reader starts on the chosen file. The
\* open modal covers the upload button.
handleFileChange(file) ==
    /\ ~isOpen
    /\ nUploads < MaxUploads
    /\ nUploads' = nUploads + 1
    /\ uploads' = uploads \cup {[id |-> nUploads + 1, file |-> file]}
    /\ UNCHANGED <<sessionVars, toolVars, maskVars, maskLog, editVars, restVars, alerts,
                   doneVars, viewerVars, lateVars>>

\* setEditorState({isOpen: true, imageData}) with a new image, whether or not
\* the editor is open: the modal's effect on [isOpen, imageData] resets it.
UploadOpensEditor ==
    /\ sessions < MaxSessions
    /\ isOpen' = TRUE
    /\ sessions' = sessions + 1
    /\ imageData' = sessions + 1
    /\ resetAllState
    /\ srcLoads' = srcLoads \cup {sessions + 1}
    /\ lastOps' = <<>>
    /\ discarded' = {}
    /\ scen' = "off"
    /\ nCommits' = 0
    /\ nUndos' = 0
    /\ strokes' = 0
    /\ clears' = 0
    /\ nextSid' = 0
    /\ surface' = {}
    /\ UNCHANGED <<isDrawing, maskLoads, calls, nCalls, failedCalls, cropVars, nAdjust,
                   restVars, alerts, doneVars, viewerVars, lateVars>>

\* handleFileChange from the reader's answer on.
FileRead(u) ==
    /\ u \in uploads
    /\ uploads' = uploads \ {u}
    /\ UNCHANGED nUploads
    /\ IF fileToImageData(u.file).ok
       THEN UploadOpensEditor
       ELSE /\ alerts' = alerts + 1
            /\ UNCHANGED <<sessionVars, toolVars, maskVars, maskLog, editVars, restVars,
                           doneVars, viewerVars, lateVars>>

NextUpload ==
    \/ \E file \in Files : handleFileChange(file)
    \/ \E u \in uploads : FileRead(u)
    \/ CloseEditor
    \/ \E i \in 1..MaxSessions : ImageLoaded(i)

\* ------------------------------------------------------------ Apply / Save
NoBake ==
    [src |-> 0, filter |-> <<>>, rotation |-> 0, flipScale |-> NoFlip, uniformScale |-> 0]

\* The value assigned to ctx.filter by renderCanvas and by getBakedImageData.
ctxFilter == <<activeFilter, brightness, contrast, saturation>>

hasUnappliedChanges ==
    \/ brightness # 100
    \/ contrast # 100
    \/ saturation # 100
    \/ rotation # 0
    \/ uniformScale # 100
    \/ flipScale.x # 1
    \/ flipScale.y # 1
    \/ activeFilter # "none"

getBakedImageData_NoRotation(drawn) ==
    IF committedImage = 0 \/ ~drawn
    THEN NoBake
    ELSE [src |-> committedImage, filter |-> ctxFilter, rotation |-> 0,
          flipScale |-> flipScale, uniformScale |-> uniformScale]

\* getBakedImageData; drawn = the final canvas gave a context and a data URL
\* with data (a canvas without area gives 'data:,').
getBakedImageData(drawn) ==
    IF committedImage = 0 \/ ~drawn
    THEN NoBake
    ELSE [src |-> committedImage, filter |-> ctxFilter, rotation |-> rotation,
          flipScale |-> flipScale, uniformScale |-> uniformScale]

NoDone ==
    [n |-> 0, callback |-> "none", text |-> <<>>, original |-> 0, result |-> NoResult,
     bake |-> NoBake, baked |-> FALSE]

\* The identity of the image of an edited result and of a bake in a message.
EditedImage(r) == 100 + r.sess
BakedImage(b) == 200 + Abs(b.src)

\* handleDone with App's onEditComplete, onClientEditSave and onClose, each up
\* to its first await. The Save button is shown with an edited result; Apply &
\* Save is shown without one for the tools other than brush and expand, and is
\* disabled without unapplied changes.
handleDone(drawn) ==
    /\ CanvasMounted
    /\ ~isDrawing
    /\ \/ editedImageData # NoResult
       \/ activeTool \notin {"brush", "expand"} /\ hasUnappliedChanges
    /\ LET newImage == getBakedImageData(drawn)
           callback == IF editedImageData # NoResult /\ imageData # 0
                       THEN "onEditComplete"
                       ELSE IF editedImageData = NoResult /\ hasUnappliedChanges
                               /\ newImage # NoBake
                            THEN "onClientEditSave"
                            ELSE "none"
           text == IF callback = "onEditComplete"
                   THEN IF prompt = <<>> THEN <<"AI edit">> ELSE prompt
                   ELSE IF callback = "onClientEditSave"
                        THEN <<"Image saved with adjustments applied.">>
                        ELSE <<>>
       IN /\ nDone' = nDone + 1
          /\ lastDone' =
                 [n |-> nDone + 1, callback |-> callback, text |-> text,
                  original |-> IF callback = "onEditComplete" THEN imageData ELSE 0,
                  result |-> IF callback = "onEditComplete" THEN editedImageData ELSE NoResult,
                  bake |-> IF callback = "onClientEditSave" THEN newImage ELSE NoBake,
                  baked |-> newImage # NoBake]
          /\ saves' = IF callback = "none"
                      THEN saves
                      ELSE saves \cup
                           {[id |-> nDone + 1, callback |-> callback,
                             pc |-> IF callback = "onEditComplete"
                                    THEN "saveUser" ELSE "saveModel",
                             text |-> text, original |-> imageData,
                             image |-> IF callback = "onEditComplete"
                                       THEN EditedImage(editedImageData)
                                       ELSE BakedImage(newImage)]}
    /\ isOpen' = FALSE
    /\ imageData' = 0
    /\ surface' = {}
    /\ maskLoads' = {}
    /\ UNCHANGED <<sessions, committedImage, srcLoads, toolVars, history, historyIndex,
                   isDrawing, strokes, clears, nextSid, maskLog, editVars, restVars,
                   uploadVars, viewerVars, lateVars>>

\* handleEditComplete and handleSaveClientEdit once the store has answered an
\* addMessage: the next addMessage is called, or the handler returns.
SaveStep(id, ok) ==
    \E c \in saves :
        /\ c.id = id
        /\ IF c.pc = "saveUser"
           THEN /\ addMessage([role |-> "user", text |-> c.text, image |-> c.original,
                               params |-> NoParams], c, ok)
                /\ saves' = (saves \ {c}) \cup {[c EXCEPT !.pc = "saveModel"]}
           ELSE /\ addMessage([role |-> "model",
                               text |-> IF c.callback = "onClientEditSave"
                                        THEN c.text ELSE <<>>,
                               image |-> c.image, params |-> NoParams], c, ok)
                /\ saves' = saves \ {c}
        /\ UNCHANGED <<sessionVars, toolVars, maskVars, maskLog, editVars, isLoading,
                       historyLoaded, chatCalls, nChatCalls, finished, removalLog, svcVars,
                       uploadVars, nDone, lastDone, viewerVars, lateVars>>

InitDone ==
    /\ saves = {}
    /\ nDone = 0
    /\ lastDone = NoDone

NextDone ==
    \/ OpenEditor
    \/ \E i \in 1..MaxSessions : ImageLoaded(i)
    \/ \E t \in {"brush", "transform"} : SetActiveTool(t)
    \/ MayAdjust /\ Rotate90
    \/ \E p \in {<<>>, <<"sky", " ">>} : SetPrompt(p)
    \/ handleSubmit(TRUE)
    \/ \E id \in 1..MaxCalls : CallStep(id)
    \/ \E drawn \in BOOLEAN : handleDone(drawn)
    \/ \E id \in 1..MaxSessions : SaveStep(id, TRUE)

\* ------------------------------------------------------------ the image viewer
\* Numbers of the viewer are rational: [n, d] with d > 0, in lowest terms.
Rat(n, d) == [n |-> n, d |-> d]

RECURSIVE GCD(_, _)
GCD(a, b) == IF b = 0 THEN a ELSE GCD(b, a % b)

Norm(n, d) == LET g == GCD(Abs(n), d) IN IF n = 0 THEN Rat(0, 1) ELSE Rat(n \div g, d \div g)

Whole(k) == Rat(k, 1)

RMul(a, b) ==
    LET g1 == IF a.n = 0 THEN b.d ELSE GCD(Abs(a.n), b.d)
        g2 == IF b.n = 0 THEN a.d ELSE GCD(Abs(b.n), a.d)
    IN  Norm((a.n \div g1) * (b.n \div g2), (a.d \div g2) * (b.d \div g1))

\* a / b for b > 0.
RDiv(a, b) == RMul(a, Rat(b.d, b.n))

RSub(a, b) ==
    LET g == GCD(a.d, b.d)
    IN  Norm(a.n * (b.d \div g) - b.n * (a.d \div g), (a.d \div g) * b.d)

RAdd(a, b) == RSub(a, Rat(-b.n, b.d))

RLess(a, b) == RSub(a, b).n < 0

RMin(a, b) == IF RLess(a, b) THEN a ELSE b
RMax(a, b) == IF RLess(a, b) THEN b ELSE a

\* Where the mouse may be, in client coordinates, and the container's corner
\* (getBoundingClientRect of the container inside the p-4 padding).
ContainerLeft == 16
ContainerTop == 16
ClientPoints == {[x |-> 16, y |-> 16], [x |-> 20, y |-> 18]}

\* MessageBubble.handleOpenViewer and the viewer's effect on [isOpen, imageUrl].
\* The open editor covers the chat.
OpenViewer ==
    /\ ~viewerOpen
    /\ ~isOpen
    /\ viewerOpen' = TRUE
    /\ scale' = Whole(1)
    /\ position' = [x |-> Whole(0), y |-> Whole(0)]
    /\ UNCHANGED <<isDragging, startDrag, nZoomClicks, nWheel, wheelAt, nPans>>
    /\ UNCHANGED <<sessionVars, toolVars, maskVars, maskLog, editVars, restVars, uploadVars,
                   doneVars, lateVars>>

\* onClose: the backdrop, the close button or the Escape key.
CloseViewer ==
    /\ viewerOpen
    /\ viewerOpen' = FALSE
    /\ UNCHANGED <<scale, position, isDragging, startDrag, nZoomClicks, nWheel, wheelAt, nPans>>
    /\ UNCHANGED <<sessionVars, toolVars, maskVars, maskLog, editVars, restVars, uploadVars,
                   doneVars, lateVars>>

handleZoomIn ==
    /\ viewerOpen
    /\ scale' = RMin(RMul(scale, Rat(5, 4)), Whole(8))
    /\ nZoomClicks' = nZoomClicks + 1
    /\ UNCHANGED <<viewerOpen, position, isDragging, startDrag, nWheel, wheelAt, nPans>>
    /\ UNCHANGED <<sessionVars, toolVars, maskVars, maskLog, editVars, restVars, uploadVars,
                   doneVars, lateVars>>

handleZoomOut ==
    /\ viewerOpen
    /\ scale' = RMax(RDiv(scale, Rat(5, 4)), Rat(1, 10))
    /\ nZoomClicks' = nZoomClicks + 1
    /\ UNCHANGED <<viewerOpen, position, isDragging, startDrag, nWheel, wheelAt, nPans>>
    /\ UNCHANGED <<sessionVars, toolVars, maskVars, maskLog, editVars, restVars, uploadVars,
                   doneVars, lateVars>>

handleReset ==
    /\ viewerOpen
    /\ scale' = Whole(1)
    /\ position' = [x |-> Whole(0), y |-> Whole(0)]
    /\ nZoomClicks' = nZoomClicks + 1
    /\ UNCHANGED <<viewerOpen, isDragging, startDrag, nWheel, wheelAt, nPans>>
    /\ UNCHANGED <<sessionVars, toolVars, maskVars, maskLog, editVars, restVars, uploadVars,
                   doneVars, lateVars>>

zoomIntensity == Rat(1, 5)

\* The new scale of a wheel event: delta is -1 for deltaY > 0, else 1.
newScale(delta) ==
    RMin(RMax(RAdd(scale, RMul(RMul(Whole(delta), zoomIntensity), scale)), Rat(1, 10)), Whole(8))

\* The new position along one axis: mouse - ((mouse - position) / scale) * to.
newPosition_Unclamped(mouse, pos, delta) ==
    LET point == RDiv(RSub(Whole(mouse), pos), scale)
    IN  RSub(Whole(mouse), RMul(point, RAdd(scale, RMul(RMul(Whole(delta), zoomIntensity), scale))))

newPosition(mouse, pos, delta) ==
    LET point == RDiv(RSub(Whole(mouse), pos), scale)
    IN  RSub(Whole(mouse), RMul(point, newScale(delta)))

handleWheel(delta, client) ==
    /\ viewerOpen
    /\ LET mouseX == client.x - ContainerLeft
           mouseY == client.y - ContainerTop
       IN /\ scale' = newScale(delta)
          /\ position' = [x |-> newPosition(mouseX, position.x, delta),
                          y |-> newPosition(mouseY, position.y, delta)]
          /\ wheelAt' = [x |-> mouseX, y |-> mouseY]
    /\ nWheel' = nWheel + 1
    /\ UNCHANGED <<viewerOpen, isDragging, startDrag, nZoomClicks, nPans>>
    /\ UNCHANGED <<sessionVars, toolVars, maskVars, maskLog, editVars, restVars, uploadVars,
                   doneVars, lateVars>>

\* Pressing the button at a scale of at most 1 returns at once.
handleMouseDown(client) ==
    /\ viewerOpen
    /\ ~isDragging
    /\ ~(~RLess(Whole(1), scale))
    /\ isDragging' = TRUE
    /\ startDrag' = [x |-> RSub(Whole(client.x), position.x),
                     y |-> RSub(Whole(client.y), position.y)]
    /\ UNCHANGED <<viewerOpen, scale, position, nZoomClicks, nWheel, wheelAt, nPans>>
    /\ UNCHANGED <<sessionVars, toolVars, maskVars, maskLog, editVars, restVars, uploadVars,
                   doneVars, lateVars>>

\* handleMouseUp and handleMouseLeave.
handleMouseUp ==
    /\ viewerOpen
    /\ isDragging
    /\ isDragging' = FALSE
    /\ UNCHANGED <<viewerOpen, scale, position, startDrag, nZoomClicks, nWheel, wheelAt, nPans>>
    /\ UNCHANGED <<sessionVars, toolVars, maskVars, maskLog, editVars, restVars, uploadVars,
                   doneVars, lateVars>>

handleMouseMove(client) ==
    /\ viewerOpen
    /\ isDragging
    /\ position' = [x |-> RSub(Whole(client.x), startDrag.x),
                    y |-> RSub(Whole(client.y), startDrag.y)]
    /\ nPans' = nPans + 1
    /\ UNCHANGED <<viewerOpen, scale, isDragging, startDrag, nZoomClicks, nWheel, wheelAt>>
    /\ UNCHANGED <<sessionVars, toolVars, maskVars, maskLog, editVars, restVars, uploadVars,
                   doneVars, lateVars>>

InitViewer ==
    /\ viewerOpen = FALSE
    /\ scale = Whole(1)
    /\ position = [x |-> Whole(0), y |-> Whole(0)]
    /\ isDragging = FALSE
    /\ startDrag = [x |-> Whole(0), y |-> Whole(0)]
    /\ nZoomClicks = 0
    /\ nWheel = 0
    /\ wheelAt = [x |-> 0, y |-> 0]
    /\ nPans = 0

\* The number of zoom steps explored in the editor and the viewer together.
ZoomBudget == nAdjust + nZoomClicks + nWheel < MaxZooms

\* The zoom and scale controls of the editor and of the viewer. The viewer
\* covers the chat, from which the editor is opened.
NextZoom ==
    \/ ~viewerOpen /\ OpenEditor
    \/ CloseEditor
    \/ SetActiveTool("transform")
    \/ \E v \in {50, 100, 200} : ZoomBudget /\ SetUniformScale(v)
    \/ ZoomBudget /\ ZoomIn
    \/ ZoomBudget /\ ZoomOut
    \/ ZoomBudget /\ ResetView
    \/ OpenViewer
    \/ CloseViewer
    \/ ZoomBudget /\ handleZoomIn
    \/ ZoomBudget /\ handleZoomOut
    \/ ZoomBudget /\ handleReset
    \/ \E delta \in {-1, 1} :
           ZoomBudget /\ nWheel < MaxWheel
               /\ handleWheel(delta, [x |-> ContainerLeft, y |-> ContainerTop])

\* The number of zoom steps explored.
MayZoom == nZoomClicks + nWheel < MaxZooms

\* The image viewer. The buttons lie outside the container: the mouse leaves it
\* (handleMouseLeave) before it clicks one of them.
NextViewer ==
    \/ OpenViewer
    \/ CloseViewer
    \/ MayZoom /\ ~isDragging /\ handleZoomIn
    \/ MayZoom /\ ~isDragging /\ handleZoomOut
    \/ MayZoom /\ ~isDragging /\ handleReset
    \/ \E delta \in {-1, 1}, client \in ClientPoints :
           MayZoom /\ nWheel < MaxWheel /\ handleWheel(delta, client)
    \/ \E client \in ClientPoints : handleMouseDown(client)
    \/ handleMouseUp
    \/ \E client \in ClientPoints : nPans < MaxPans /\ handleMouseMove(client)

\* ------------------------------------------------- the display canvas and the bake
\* The numbers of renderCanvas and getBakedImageData are binary floating-point
\* numbers: every product, quotient and sum is rounded to the nearest number of
\* SignificandBits bits, ties to even (a Number has 53 of them). They are
\* positive or zero here.
Pow2(k) == IF k >= 0 THEN Rat(2 ^ k, 1) ELSE Rat(1, 2 ^ (-k))

\* The e with 2^e <= r < 2^(e + 1), for r > 0.
RECURSIVE Exponent(_)
Exponent(r) ==
    IF r.n < r.d THEN Exponent(Norm(2 * r.n, r.d)) - 1
    ELSE IF r.n >= 2 * r.d THEN Exponent(Norm(r.n, 2 * r.d)) + 1
    ELSE 0

\* The nearest whole number to q >= 0, the even one of two equally near.
Nearest(q) ==
    LET below == q.n \div q.d
        rest == 2 * (q.n % q.d)
    IN  IF rest > q.d \/ (rest = q.d /\ below % 2 = 1) THEN below + 1 ELSE below

Round(r) ==
    IF r.n = 0 THEN r
    ELSE LET ulp == Pow2(Exponent(r) - SignificandBits + 1)
         IN  RMul(Whole(Nearest(RDiv(r, ulp))), ulp)

FMul(a, b) == Round(RMul(a, b))
FDiv(a, b) == Round(RDiv(a, b))
FAdd(a, b) == Round(RAdd(a, b))

\* Math.abs(Math.cos(rad)) and Math.abs(Math.sin(rad)) for the angle in degrees,
\* from a table of four decimals for the angles the controls explored here can
\* produce; the cosine of a quarter turn, a number below every rounding unit of
\* the sums it enters, is taken as 0.
Folded(deg) == LET a == deg % 180 IN IF a > 90 THEN 180 - a ELSE a

CosTable(a) ==
    CASE a = 0 -> Rat(1, 1)
      [] a = 30 -> Rat(8660, 10000)
      [] a = 45 -> Rat(7071, 10000)
      [] a = 60 -> Rat(1, 2)
      [] a = 90 -> Rat(0, 1)

absCos(deg) == Round(Norm(CosTable(Folded(deg)).n, CosTable(Folded(deg)).d))
absSin(deg) == Round(Norm(CosTable(90 - Folded(deg)).n, CosTable(90 - Folded(deg)).d))

\* naturalWidth and naturalHeight of the committed image (a cropped image, of a
\* negative identity, is smaller than its source).
naturalSize(i) ==
    IF i = 1 THEN [width |-> 40, height |-> 30]
    ELSE IF i > 1 THEN [width |-> 30, height |-> 50]
    ELSE [width |-> 20, height |-> 10]

\* getBoundingClientRect of the canvas container.
Containers ==
    {[width |-> 240, height |-> 140], [width |-> 100, height |-> 200],
     [width |-> 140, height |-> 140]}

\* The state's uniformScale: the slider's parseInt(value) / 100.
scaleFactor == Round(Norm(uniformScale, 100))

\* The extent of a w by h image turned by deg degrees.
rotatedExtent(w, h, deg) ==
    LET cos == absCos(deg)
        sin == absSin(deg)
    IN  [width |-> FAdd(FMul(w, cos), FMul(h, sin)),
         height |-> FAdd(FMul(w, sin), FMul(h, cos))]

displayScale_Largest(maxWidth, maxHeight, rotated) ==
    RMax(FDiv(maxWidth, rotated.width), FDiv(maxHeight, rotated.height))

displayScale(maxWidth, maxHeight, rotated) ==
    RMin(FDiv(maxWidth, rotated.width), FDiv(maxHeight, rotated.height))

\* A canvas element's width and height are whole numbers: an assigned number
\* loses its fraction.
Truncated(r) == r.n \div r.d

\* What renderCanvas computes and draws: the context's filter and transforms,
\* the image's uniformly scaled size, the size computed for the display canvas
\* and the size the canvas element takes. It returns early without an image or
\* with a rotated extent of 0.
renderCanvas(container) ==
    LET imgWidth == FMul(Whole(naturalSize(committedImage).width), scaleFactor)
        imgHeight == FMul(Whole(naturalSize(committedImage).height), scaleFactor)
        rotated == rotatedExtent(imgWidth, imgHeight, rotation)
        maxWidth == Whole(container.width - 40)
        maxHeight == Whole(container.height - 40)
        scaleToFit == displayScale(maxWidth, maxHeight, rotated)
        canvasWidth == FMul(rotated.width, scaleToFit)
        canvasHeight == FMul(rotated.height, scaleToFit)
    IN  [drawn |-> committedImage # 0 /\ rotated.width.n # 0 /\ rotated.height.n # 0,
         filter |-> ctxFilter,
         rotate |-> rotation,
         flip |-> flipScale,
         imgWidth |-> imgWidth,
         imgHeight |-> imgHeight,
         canvasWidth |-> canvasWidth,
         canvasHeight |-> canvasHeight,
         width |-> Truncated(canvasWidth),
         height |-> Truncated(canvasHeight)]

\* What getBakedImageData draws on its final canvas: w and h are the image's
\* uniformly scaled size, the canvas has its rotated extent.
bakeCanvas_NoFlip ==
    LET w == FMul(Whole(naturalSize(committedImage).width), scaleFactor)
        h == FMul(Whole(naturalSize(committedImage).height), scaleFactor)
        rotated == rotatedExtent(w, h, rotation)
    IN  [filter |-> ctxFilter,
         rotate |-> rotation,
         flip |-> NoFlip,
         imgWidth |-> w,
         imgHeight |-> h,
         width |-> Truncated(rotated.width),
         height |-> Truncated(rotated.height)]

bakeCanvas ==
    LET w == FMul(Whole(naturalSize(committedImage).width), scaleFactor)
        h == FMul(Whole(naturalSize(committedImage).height), scaleFactor)
        rotated == rotatedExtent(w, h, rotation)
    IN  [filter |-> ctxFilter,
         rotate |-> rotation,
         flip |-> flipScale,
         imgWidth |-> w,
         imgHeight |-> h,
         width |-> Truncated(rotated.width),
         height |-> Truncated(rotated.height)]

\* What handleApplyCrop draws on its transformedCanvas, the raster it crops:
\* the filter string has no preset and the image is drawn at its natural size.
transformedCanvas ==
    LET w == Whole(naturalSize(committedImage).width)
        h == Whole(naturalSize(committedImage).height)
        rotated == rotatedExtent(w, h, rotation)
    IN  [filter |-> <<brightness, contrast, saturation>>,
         rotate |-> rotation,
         flip |-> flipScale,
         imgWidth |-> w,
         imgHeight |-> h,
         newWidth |-> rotated.width,
         newHeight |-> rotated.height,
         width |-> Truncated(rotated.width),
         height |-> Truncated(rotated.height)]

\* The source rectangle handleApplyCrop cuts out of its transformedCanvas for a
\* crop box given in display pixels, the display canvas being displayWidth wide.
cropSource(box, displayWidth) ==
    LET scaleBetweenDisplayAndBaked ==
            FDiv(transformedCanvas.newWidth,
                 FDiv(Whole(displayWidth), Round(Norm(zoom, ZoomUnit))))
    IN  [sx |-> FMul(Whole(box.x), scaleBetweenDisplayAndBaked),
         sy |-> FMul(Whole(box.y), scaleBetweenDisplayAndBaked),
         sWidth |-> FMul(Whole(box.width), scaleBetweenDisplayAndBaked),
         sHeight |-> FMul(Whole(box.height), scaleBetweenDisplayAndBaked)]

\* ------------------------------------------------ the editor's render requests
\* The ref and the browser's list of animation-frame callbacks, as a record.
FrameState == [ref |-> renderRequestRef, requests |-> frameRequests, next |-> nextHandle]

\* cancelAnimationFrame(handle): a handle that is not in the list changes nothing.
cancelAnimationFrame(st, handle) == [st EXCEPT !.requests = @ \ {handle}]

\* requestAnimationFrame(callback): a new handle, never 0.
requestAnimationFrame(st) ==
    [st EXCEPT !.ref = st.next, !.requests = @ \cup {st.next}, !.next = @ + 1]

queueRender_NoCancel(st) == requestAnimationFrame(st)

queueRender(st) ==
    requestAnimationFrame(IF st.ref # 0 THEN cancelAnimationFrame(st, st.ref) ELSE st)

\* The frame state after the effects of a commit have called queueRender.
Queued(st, times) ==
    /\ renderRequestRef' = st.ref
    /\ frameRequests' = st.requests
    /\ nextHandle' = st.next
    /\ nQueued' = nQueued + times
    /\ UNCHANGED nRendered

\* A commit after which renderCanvas is a new function (one of its dependencies
\* changed): the effect on [queueRender] calls queueRender, and so does the
\* effect of the blank history when it runs in the same commit.
RenderInputsChange(blankEffect) ==
    /\ blankEffect => CanvasMounted /\ committedImage # 0 /\ history = <<>>
    /\ IF blankEffect
       THEN Queued(queueRender(queueRender(FrameState)), 2)
       ELSE Queued(queueRender(FrameState), 1)
    /\ UNCHANGED <<sessionVars, toolVars, maskVars, maskLog, editVars, restVars, uploadVars,
                   doneVars, viewerVars, dbVars>>

\* The window's resize listener.
handleResize ==
    /\ Queued(queueRender(FrameState), 1)
    /\ UNCHANGED <<sessionVars, toolVars, maskVars, maskLog, editVars, restVars, uploadVars,
                   doneVars, viewerVars, dbVars>>

\* The browser's next frame runs the callbacks of its list; each calls
\* renderCanvas if the base canvas is mounted. The ref keeps its handle.
AnimationFrame ==
    /\ frameRequests # {}
    /\ frameRequests' = {}
    /\ nRendered' = IF CanvasMounted THEN Cardinality(frameRequests) ELSE 0
    /\ nQueued' = 0
    /\ UNCHANGED <<renderRequestRef, nextHandle>>
    /\ UNCHANGED <<sessionVars, toolVars, maskVars, maskLog, editVars, restVars, uploadVars,
                   doneVars, viewerVars, dbVars>>

InitFrame ==
    /\ renderRequestRef = 0
    /\ frameRequests = {}
    /\ nextHandle = 1
    /\ nQueued = 0
    /\ nRendered = 0

\* Up to MaxRequests animation-frame requests.
MayRequest == nextHandle + 1 <= MaxRequests

NextRender ==
    \/ OpenEditor
    \/ CloseEditor
    \/ \E i \in 1..MaxSessions : ImageLoaded(i)
    \/ BlankInit
    \/ \E blankEffect \in BOOLEAN : MayRequest /\ RenderInputsChange(blankEffect)
    \/ MayRequest /\ handleResize
    \/ AnimationFrame

\* ------------------------------------------------ the store and its connection
\* The page's session id (localStorage) and the one of an earlier visit whose
\* localStorage entry has been removed since.
ThisSession == 1
SessionIds == {1, 2}
Times == 1..MaxTime

\* The module's dbPromise with the open requests made so far.
DbState == [promise |-> dbPromise, opens |-> opens]

getDB_Retry(st) ==
    IF st.promise = 0 \/ st.opens[st.promise] = "rejected"
    THEN [promise |-> Len(st.opens) + 1, opens |-> Append(st.opens, "pending")]
    ELSE st

\* getDB: indexedDB.open is called when dbPromise is null; the promise is returned.
getDB(st) ==
    IF st.promise = 0
    THEN [promise |-> Len(st.opens) + 1, opens |-> Append(st.opens, "pending")]
    ELSE st

\* The records of an index key as the index gives them: in the order of their
\* primary keys.
RECURSIVE InKeyOrder(_)
InKeyOrder(rs) ==
    IF rs = {}
    THEN <<>>
    ELSE LET r == CHOOSE r \in rs : \A q \in rs : r.id <= q.id
         IN <<r>> \o InKeyOrder(rs \ {r})

\* request.result.sort((a, b) => a.timestamp - b.timestamp): a stable sort.
RECURSIVE sortedResult(_)
sortedResult(result) ==
    IF result = <<>>
    THEN <<>>
    ELSE LET r == result[Len(result)]
             before == sortedResult(SubSeq(result, 1, Len(result) - 1))
             k == Cardinality({i \in 1..Len(before) : before[i].timestamp <= r.timestamp})
         IN SubSeq(before, 1, k) \o <<r>> \o SubSeq(before, k + 1, Len(before))

getAllMessagesFromDB(store, sessionId) ==
    sortedResult(InKeyOrder({r \in store : r.sessionId = sessionId}))

\* store.add(storedMessage): the key generator gives the id. A record carries
\* the operation of the hook that stored it (0: an earlier visit), for the
\* properties.
addMessageToDB(store, key, sessionId, now, by) ==
    store \cup {[id |-> key, sessionId |-> sessionId, timestamp |-> now, by |-> by]}

deleteMessageFromDB(store, id) == {r \in store : r.id # id}

\* The key cursor of clearAllMessages: it deletes the record of each primary key
\* it comes to.
RECURSIVE DeleteAtCursor(_, _)
DeleteAtCursor(store, cursor) ==
    IF cursor = <<>>
    THEN store
    ELSE DeleteAtCursor({r \in store : r.id # Head(cursor).id}, Tail(cursor))

clearAllMessages_WholeStore(store, sessionId) == {}

clearAllMessages(store, sessionId) ==
    DeleteAtCursor(store, InKeyOrder({r \in store : r.sessionId = sessionId}))

\* The message loadHistory and addMessage make of a record: its id is 'db-' and
\* the record's key.
DbMessage(r) ==
    [id |-> r.id, role |-> "user", text |-> <<>>, image |-> 0, params |-> NoParams, by |-> 0]

loadHistory_KeepsAll(prev, storedMessages) ==
    IF Len(storedMessages) > 0
    THEN prev \o [i \in 1..Len(storedMessages) |-> DbMessage(storedMessages[i])]
    ELSE prev

\* loadHistory's setMessages(prev => [prev[0], ...historyMessages]).
loadHistory(prev, storedMessages) ==
    IF Len(storedMessages) > 0
    THEN <<prev[1]>> \o [i \in 1..Len(storedMessages) |-> DbMessage(storedMessages[i])]
    ELSE prev

\* The stores an earlier visit may have left: one or two records, of this
\* session or another one, with timestamps in any order.
EarlierStores ==
    {st \in SUBSET [id : 1..2, sessionId : SessionIds, timestamp : Times, by : {0}] :
        /\ st # {}
        /\ \A r, q \in st : r.id = q.id => r = q
        /\ {r.id : r \in st} = 1..Cardinality(st)}

\* What a step of the store leaves alone, the conversation apart.
DbFrame ==
    UNCHANGED <<sessionVars, toolVars, maskVars, maskLog, editVars, isLoading, stored,
                historyLoaded, chatCalls, nChatCalls, finished, nextKey, removalLog, svcVars,
                uploadVars, doneVars, viewerVars, frameVars>>

EarlierRows(store) ==
    /\ nDbCalls = 0
    /\ rows = {}
    /\ rows' = store
    /\ nextRowKey' = Cardinality(store) + 1
    /\ UNCHANGED <<messages, dbPromise, opens, dbCalls, txQueue, lastDb, loadOutcome, nDbCalls>>
    /\ DbFrame

\* The db function an operation of the hook calls first, and the one it calls
\* after initDB.
FirstFn(hook) == IF hook = "addMessage" THEN "addMessageToDB" ELSE "initDB"

NextFn(hook) ==
    CASE hook = "loadHistory" -> "getAllMessagesFromDB"
      [] hook = "deleteMessage" -> "deleteMessageFromDB"
      [] hook = "clearHistory" -> "clearAllMessages"
      [] OTHER -> "addMessageToDB"

\* An operation of the hook up to the await of its first getDB(). loadHistory
\* runs in the effect of the first render, before any handler.
StartHook(hook, arg) ==
    /\ IF hook = "loadHistory" THEN nDbCalls = 0 ELSE nDbCalls > 0
    /\ IF hook = "deleteMessage"
       THEN arg > 0 /\ \E i \in 1..Len(messages) : messages[i].id = arg
       ELSE arg = 0
    /\ LET st == getDB(DbState)
       IN /\ dbPromise' = st.promise
          /\ opens' = st.opens
          /\ dbCalls' = dbCalls \cup {[id |-> nDbCalls + 1, hook |-> hook, fn |-> FirstFn(hook),
                                       arg |-> arg, pc |-> "getDB", awaits |-> st.promise,
                                       timestamp |-> 0]}
    /\ nDbCalls' = nDbCalls + 1
    /\ UNCHANGED <<messages, txQueue, rows, nextRowKey, lastDb, loadOutcome>>
    /\ DbFrame

\* request.onsuccess / request.onerror of indexedDB.open.
OpenSettles(ok) ==
    \E k \in 1..Len(opens) :
        /\ opens[k] = "pending"
        /\ opens' = [opens EXCEPT ![k] = IF ok THEN "resolved" ELSE "rejected"]
        /\ UNCHANGED <<messages, dbPromise, dbCalls, txQueue, rows, nextRowKey, lastDb,
                       loadOutcome, nDbCalls>>
        /\ DbFrame

HookError(hook) ==
    CASE hook = "loadHistory" -> <<"Could not load saved conversation history.">>
      [] hook = "deleteMessage" -> <<"Failed to delete the message.">>
      [] hook = "clearHistory" -> <<"Failed to clear history.">>
      [] OTHER -> <<"Failed to save your message.">>

\* The catch block of the hook's operation.
HookFails(c) ==
    /\ messages' = Append(messages, TempErrorMessage(HookError(c.hook)))
    /\ dbCalls' = dbCalls \ {c}
    /\ loadOutcome' = IF c.hook = "loadHistory" THEN "failed" ELSE loadOutcome

\* The continuation of `await getDB()`. initDB returns true or false and the
\* operation calls its next db function, which calls getDB() again; another
\* function throws if the open was rejected, and else creates its transaction
\* (addMessageToDB reads the clock first).
Resume(c, now) ==
    /\ c \in dbCalls
    /\ c.pc = "getDB"
    /\ opens[c.awaits] # "pending"
    /\ IF c.fn = "initDB"
       THEN LET st == getDB(DbState)
            IN /\ dbPromise' = st.promise
               /\ opens' = st.opens
               /\ dbCalls' = (dbCalls \ {c}) \cup
                                 {[c EXCEPT !.fn = NextFn(c.hook), !.awaits = st.promise]}
               /\ UNCHANGED <<messages, txQueue, loadOutcome>>
       ELSE IF opens[c.awaits] = "rejected"
            THEN /\ HookFails(c)
                 /\ UNCHANGED <<dbPromise, opens, txQueue>>
            ELSE /\ dbCalls' = (dbCalls \ {c}) \cup
                                   {[c EXCEPT !.pc = "request",
                                              !.timestamp = IF c.fn = "addMessageToDB"
                                                            THEN now ELSE 0]}
                 /\ txQueue' = Append(txQueue, c.id)
                 /\ UNCHANGED <<dbPromise, opens, messages, loadOutcome>>
    /\ UNCHANGED <<rows, nextRowKey, lastDb, nDbCalls>>
    /\ DbFrame

\* The oldest transaction finishes (transactions on one store run in the order
\* of their creation when one of them writes): its request's handler resolves
\* or rejects the promise, and the operation of the hook goes on to its
\* setMessages in the same task. A failed request changes no record.
TxCompletes(ok) ==
    /\ txQueue # <<>>
    /\ \E c \in dbCalls :
        /\ c.id = Head(txQueue)
        /\ txQueue' = Tail(txQueue)
        /\ IF ~ok
           THEN /\ HookFails(c)
                /\ lastDb' = [call |-> c.id, fn |-> c.fn, ok |-> FALSE, value |-> <<>>]
                /\ UNCHANGED <<rows, nextRowKey>>
           ELSE /\ dbCalls' = dbCalls \ {c}
                /\ CASE c.fn = "addMessageToDB" ->
                          /\ rows' = addMessageToDB(rows, nextRowKey, ThisSession, c.timestamp, c.id)
                          /\ nextRowKey' = nextRowKey + 1
                          /\ messages' = Append(messages, DbMessage([id |-> nextRowKey]))
                          /\ lastDb' = [call |-> c.id, fn |-> c.fn, ok |-> TRUE, value |-> <<>>]
                          /\ UNCHANGED loadOutcome
                     [] c.fn = "getAllMessagesFromDB" ->
                          /\ lastDb' = [call |-> c.id, fn |-> c.fn, ok |-> TRUE,
                                        value |-> getAllMessagesFromDB(rows, ThisSession)]
                          /\ messages' = loadHistory(messages, lastDb'.value)
                          /\ loadOutcome' = "loaded"
                          /\ UNCHANGED <<rows, nextRowKey>>
                     [] c.fn = "deleteMessageFromDB" ->
                          /\ rows' = deleteMessageFromDB(rows, c.arg)
                          /\ messages' = SelectSeq(messages, LAMBDA m : m.id # c.arg)
                          /\ lastDb' = [call |-> c.id, fn |-> c.fn, ok |-> TRUE, value |-> <<>>]
                          /\ UNCHANGED <<nextRowKey, loadOutcome>>
                     [] OTHER ->
                          /\ rows' = clearAllMessages(rows, ThisSession)
                          /\ messages' = SelectSeq(messages, LAMBDA m : m.id = 0)
                          /\ lastDb' = [call |-> c.id, fn |-> c.fn, ok |-> TRUE, value |-> <<>>]
                          /\ UNCHANGED <<nextRowKey, loadOutcome>>
    /\ UNCHANGED <<dbPromise, opens, nDbCalls>>
    /\ DbFrame

NoDbResult == [call |-> 0, fn |-> "none", ok |-> TRUE, value |-> <<>>]

InitDB ==
    /\ dbPromise = 0
    /\ opens = <<>>
    /\ dbCalls = {}
    /\ txQueue = <<>>
    /\ rows = {}
    /\ nextRowKey = 1
    /\ lastDb = NoDbResult
    /\ loadOutcome = "none"
    /\ nDbCalls = 0

\* Up to MaxDbCalls operations of the hook.
MayCall == nDbCalls < MaxDbCalls

NextDB ==
    \/ \E store \in EarlierStores : EarlierRows(store)
    \/ MayCall /\ StartHook("loadHistory", 0)
    \/ MayCall /\ StartHook("addMessage", 0)
    \/ \E id \in 1..(2 + MaxDbCalls) : MayCall /\ StartHook("deleteMessage", id)
    \/ MayCall /\ StartHook("clearHistory", 0)
    \/ \E ok \in BOOLEAN : OpenSettles(ok)
    \/ \E id \in 1..MaxDbCalls, now \in Times : \E c \in {d \in dbCalls : d.id = id} : Resume(c, now)
    \/ \E ok \in BOOLEAN : TxCompletes(ok)

InitUpload ==
    /\ uploads = {}
    /\ nUploads = 0
    /\ alerts = 0

Init ==
    /\ InitSession /\ InitTool /\ InitMask /\ InitEdit /\ InitChat /\ InitService
    /\ InitUpload /\ InitDone /\ InitViewer /\ InitFrame /\ InitDB

NextMask ==
    \/ OpenEditor
    \/ CloseEditor
    \/ \E i \in 1..MaxSessions : ImageLoaded(i)
    \/ BlankInit
    \/ MayStroke /\ startDrawing
    \/ draw
    \/ stopDrawing
    \/ handleClearMask
    \/ undo
    \/ redo
    \/ \E px \in SUBSET Strokes : MaskLoadDone(px)
    \/ CanvasResize

SpecMask == Init /\ [][NextMask]_vars

SpecEdit == Init /\ [][NextEdit]_vars

SpecChat == Init /\ [][NextChat]_vars

SpecStore == Init /\ [][NextStore]_vars

SpecUpload == Init /\ [][NextUpload]_vars

SpecCrop == Init /\ [][NextCrop]_vars

SpecDrag == Init /\ [][NextDrag]_vars

SpecView == Init /\ [][NextView]_vars

SpecTools == Init /\ [][NextTools]_vars

SpecFrame == Init /\ [][NextFrame]_vars

SpecZoom == Init /\ [][NextZoom]_vars

SpecViewer == Init /\ [][NextViewer]_vars

SpecTurn == Init /\ [][NextTurn]_vars

SpecRender == Init /\ [][NextRender]_vars

SpecDB == Init /\ [][NextDB]_vars

SpecStroke == Init /\ [][NextStroke]_vars

SpecBake == Init /\ [][NextBake]_vars

SpecDone == Init /\ [][NextDone]_vars

SpecService == Init /\ [][NextService]_vars

\* The chat and the editor's calls share no state: no step of one reads or
\* writes what the other's flag depends on, so a behaviour of the page is, for
\* each of them, one of its own behaviours with the other's steps as stuttering.
\* A behaviour of SpecFlags therefore exercises one of the two.
EditorOnly == nChatCalls = 0 /\ ~historyLoaded /\ stored = <<>>
ChatOnly == sessions = 0

NextFlags ==
    \/ EditorOnly /\ NextEdit
    \/ ChatOnly /\ NextChat

\* Every image decode, remote call and store request that is pending is
\* eventually answered.
Fairness ==
    /\ \A id \in 1..MaxCalls : WF_vars(CallStep(id))
    /\ \A id \in 1..MaxChatCalls : WF_vars(ChatCallStep(id))

SpecFlags == Init /\ [][NextFlags]_vars /\ Fairness

\* -------------------------------------------------------------- properties
LastOp == IF lastOps = <<>> THEN "none" ELSE lastOps[Len(lastOps)].op
HistoryIds == {history[j].sid : j \in 1..Len(history)}

\* C1 as stated: the cursor always satisfies 0 <= historyIndex < history.length.
C1_CursorInRange == 0 <= historyIndex /\ historyIndex < Len(history)

\* C1 (amended): the cursor is -1 exactly while the history is empty (before the
\* blank snapshot or first commit of a session), and otherwise
\* 0 <= historyIndex < history.length.
C1_CursorInRangeOrEmpty ==
    \/ history = <<>> /\ historyIndex = -1
    \/ history # <<>> /\ 0 <= historyIndex /\ historyIndex < Len(history)

C1_Witness == sessions = 2 /\ Len(history) >= 2 /\ historyIndex < Len(history) - 1

C3_CommitsThenUndos ==
    scen # "off" =>
        /\ nUndos <= nCommits
        /\ historyIndex = nCommits - nUndos
        /\ Len(history) = nCommits + 1
        /\ \A j \in 1..Len(history) : history[j].sid = j - 1
        /\ history[1].px = {}
        /\ CanvasMounted =>
              \/ history[historyIndex + 1].px \in maskLoads
              \/ history[historyIndex + 1].px \subseteq surface

C3_Witness == scen = "undos" /\ nCommits = 2 /\ nUndos = 2 /\ history[2].px # {}

\* The last three history operations were: commit, undo, commit.
CommitUndoCommit ==
    /\ Len(lastOps) = 3
    /\ lastOps[1].op = "commit"
    /\ lastOps[2].op = "undo"
    /\ lastOps[3].op = "commit"

\* C4 as stated: after commit, undo, commit the history length is the cursor's
\* value before the undo plus 2.
C4_LengthPlusTwo == CommitUndoCommit => Len(history) = lastOps[2].idx + 2

\* C4 (amended): after commit, undo, commit the history length is the cursor's
\* value before the undo plus 1 (the new snapshot takes the place of the one
\* undone), and the snapshots beyond the cursor are gone from the history.
C4_LengthPlusOne ==
    CommitUndoCommit =>
        /\ Len(history) = lastOps[2].idx + 1
        /\ historyIndex = lastOps[2].idx
        /\ history[Len(history)].sid = nextSid - 1
        /\ discarded # {}
        /\ HistoryIds \cap discarded = {}

C4_Witness == CommitUndoCommit /\ Len(history) = 2 /\ CanvasMounted

\* C5 as stated: at most one of the editor's remote calls is outstanding at any
\* time.
C5_OneEditorCallOutstanding == Cardinality({c \in calls : c.pc = "remote"}) <= 1

\* C6 as stated: the completion (success or failure) of a call started in an
\* earlier session of the editor leaves editedImageData, error, prompt and
\* isGenerating of the session now open unchanged.
C6_StaleCompletionIgnored ==
    [][\A c \in calls :
          (c \notin calls' /\ imageData # 0 /\ c.sess # imageData)
              => UNCHANGED <<editedImageData, error, prompt, isGenerating>>]_vars

\* C7 as stated: at most one remote call started from the conversation is
\* outstanding at any time.
C7_OneChatCallOutstanding == Cardinality({c \in chatCalls : c.pc = "remote"}) <= 1

\* The messages the conversation has from handler invocation id, in order.
Gained(id) == SelectSeq(messages, LAMBDA m : m.by = id)

\* C9: a prompt submission whose user message was stored and whose image came
\* back and was stored has given the conversation exactly two messages: the
\* user's text message with the prompt and the generation parameters, then the
\* model's image message; none of them is an error message.
C9_SendGainsUserThenModel ==
    \A f \in finished :
        (f.kind = "send" /\ f.userSaved /\ f.outcome = "image") =>
            /\ Len(Gained(f.id)) = 2
            /\ Gained(f.id)[1].role = "user"
            /\ Gained(f.id)[1].text = f.text
            /\ Gained(f.id)[1].params = f.params
            /\ Gained(f.id)[1].image = 0
            /\ Gained(f.id)[2].role = "model"
            /\ Gained(f.id)[2].image # 0
            /\ Gained(f.id)[2].text = <<>>

C9_Witness ==
    \E f \in finished :
        /\ f.kind = "send" /\ f.userSaved /\ f.outcome = "image"
        /\ f.text = <<"cube">>
        /\ f.params.aspectRatio = "16:9"
        /\ historyLoaded

\* s occurs in msg as a run of consecutive tokens.
Contains(msg, s) == \E i \in 1..(Len(msg) - Len(s) + 1) : SubSeq(msg, i, i + Len(s) - 1) = s

\* C10: when the response has no image part, generateImage and editImage fail
\* with an error whose message contains the finish reason if one is present and
\* is not 'STOP', and contains the trimmed response text if that is not blank;
\* the message the caller gets is the one built inside the try block.
C10_NoImageMessage ==
    (svcIn.op \in {"generate", "edit"} /\ svcIn.answer.kind = "noImage" /\ svcOut # Pending) =>
        LET fr == svcIn.answer.finishReason
            text == svcIn.answer.text
        IN /\ svcOut.kind = "error"
           /\ (fr.defined /\ fr.val # "" /\ fr.val # "STOP") => Contains(svcOut.message, <<fr.val>>)
           /\ (text.defined /\ trim(text.val) # <<>>) => Contains(svcOut.message, trim(text.val))
           /\ svcInner.isError
           /\ svcOut.message = svcInner.message

C10_Witness ==
    /\ svcIn.op = "edit"
    /\ svcIn.answer.kind = "noImage"
    /\ svcIn.answer.finishReason = Defined("SAFETY")
    /\ svcIn.answer.text = Defined(<<" ", "a">>)
    /\ svcOut.kind = "error"

\* C8: whenever the chat's isLoading or the editor's isGenerating is true, it is
\* false again later, given that every pending decode, remote call and store
\* request is answered.
C8_FlagsAreReset == (isLoading ~> ~isLoading) /\ (isGenerating ~> ~isGenerating)

C8_Witness == ~isLoading /\ \E f \in finished : f.kind = "send" /\ f.outcome = "unsaved"

\* C11: when their editImage call fails, enhanceImage fails with 'Enhancement
\* failed: ' and removeBackground with 'Background removal failed: ', each
\* followed by the message of editImage's error; when it succeeds both return
\* its result as it is.
C11_WrappersPrefixOrPassThrough ==
    (svcIn.op \in {"enhance", "removeBackground"} /\ svcOut # Pending) =>
        /\ svcEdit = EditOutcome(svcIn.answer)
        /\ IF svcIn.answer.kind = "image"
           THEN svcOut = svcEdit /\ svcOut.kind = "image" /\ svcOut.image = svcIn.answer.image
           ELSE /\ svcOut.kind = "error"
                /\ svcOut.message =
                      (IF svcIn.op = "enhance"
                       THEN <<"Enhancement failed: ">>
                       ELSE <<"Background removal failed: ">>) \o svcEdit.message

C11_Witness ==
    /\ svcIn.op = "enhance"
    /\ svcIn.answer.kind = "noImage"
    /\ svcIn.answer.finishReason = Defined("SAFETY")
    /\ svcOut.kind = "error"
    /\ Len(svcOut.message) > 1

\* C12 as stated: every step in which a remote call fails, in the editor or in
\* the chat, appends an error-role message to the conversation.
C12_FailureAppendsErrorMessage ==
    [][(failedCalls' # failedCalls \/ \E f \in finished' \ finished : f.outcome = "error")
          => /\ Len(messages') = Len(messages) + 1
             /\ messages'[Len(messages')].role = "error"]_vars

\* A step in which an addMessage call failed: the handler went on without a
\* saved user message, or returned with the outcome of a failed save.
FailedAddStep ==
    \/ \E f \in finished' \ finished : f.outcome \in {"unsaved", "modelUnsaved"}
    \/ \E c \in chatCalls, d \in chatCalls' :
          c.id = d.id /\ c.pc = "saveUser" /\ d.pc = "remote" /\ ~d.userSaved

\* A step in which a deleteMessage or clearHistory call failed.
FailedRemovalStep == nRemovals' = nRemovals + 1 /\ ~lastRemoval'.ok

\* messages' is messages with exactly one error-role message appended, whose id
\* is not a 'db-' id.
OneErrorAppended ==
    /\ Len(messages') = Len(messages) + 1
    /\ SubSeq(messages', 1, Len(messages)) = messages
    /\ messages'[Len(messages')].role = "error"
    /\ messages'[Len(messages')].id < 0

\* C13: error-role messages are never written to the store. A failed addMessage
\* appends exactly one error-role message with a non-'db-' id to the in-memory
\* list and adds no record; a failed deleteMessage or clearHistory appends one
\* temporary error message and leaves the other in-memory messages, and the
\* store, unchanged.
C13_ErrorsStayInMemory ==
    [][/\ \A i \in 1..Len(stored') : stored'[i].role # "error" /\ stored'[i].id > 0
       /\ FailedAddStep => (stored' = stored /\ nextKey' = nextKey /\ OneErrorAppended)
       /\ FailedRemovalStep => (stored' = stored /\ OneErrorAppended)]_vars

C13_Witness ==
    /\ nRemovals > 0
    /\ ~lastRemoval.ok
    /\ stored # <<>>
    /\ \E f \in finished : f.outcome = "unsaved"
    /\ \E i \in 1..Len(messages) : messages[i].role = "error" /\ messages[i].by > 0

\* C14: when reading an uploaded file fails (an unreadable file, or a data URL
\* without header, payload or MIME type), nothing changes but the alert: the
\* editor state, the editor and the conversation are as before.
C14_FailedUploadChangesNothing ==
    [][(\E u \in uploads \ uploads' : u.file \in BadFiles)
          => /\ alerts' = alerts + 1
             /\ UNCHANGED <<sessionVars, toolVars, maskVars, editVars, chatVars>>]_vars

C14_Witness == alerts > 0 /\ uploads = {} /\ ~isOpen /\ imageData = 0 /\ sessions = 0

\* A step of the mousemove listener that moved the crop box.
DragStep == nDrags' = nDrags + 1

\* C15: after every drag step of the crop box, for every handle and delta, width
\* and height are not negative; where the raw update gave a negative width or
\* height, the origin is shifted by that extent and the extent replaced by its
\* absolute value, so the box covers the same rectangle as the raw one.
C15_DragNormalizes ==
    (isCropping /\ rawBox # NoBox) =>
        /\ cropBox.width >= 0 /\ cropBox.height >= 0
        /\ rawBox.width < 0 =>
              (cropBox.x = rawBox.x + rawBox.width /\ cropBox.width = -rawBox.width)
        /\ rawBox.height < 0 =>
              (cropBox.y = rawBox.y + rawBox.height /\ cropBox.height = -rawBox.height)
        /\ cropBox.x = Least(rawBox.x, rawBox.x + rawBox.width)
        /\ cropBox.x + cropBox.width = Greatest(rawBox.x, rawBox.x + rawBox.width)
        /\ cropBox.y = Least(rawBox.y, rawBox.y + rawBox.height)
        /\ cropBox.y + cropBox.height = Greatest(rawBox.y, rawBox.y + rawBox.height)

C15_Witness ==
    isCropping /\ rawBox # NoBox /\ rawBox.width < 0 /\ rawBox.height < 0 /\ cropBox.width > 0

\* C16 as stated: after any move or resize drag the crop box lies within the
\* display canvas.
C16_BoxWithinCanvas ==
    (isCropping /\ cropBox # NoBox) =>
        /\ 0 <= cropBox.x
        /\ 0 <= cropBox.y
        /\ cropBox.x + cropBox.width <= 10 * CanvasW
        /\ cropBox.y + cropBox.height <= 10 * CanvasH

\* C17: before normalisation a drag changes only the edges its handle owns: 'n'
\* and 's' leave x and width, 'e' and 'w' leave y and height; handles with 'n' or
\* 'w' keep the opposite edge (y + height, x + width) where it was; corner handles
\* change both axes; 'move' shifts x and y by the delta and leaves width and
\* height.
C17_DragChangesOwnEdges ==
    [][DragStep =>
         LET h == draggingHandle
             dx == dragStartPos'.x - dragStartPos.x
             dy == dragStartPos'.y - dragStartPos.y
             left == cropBox.x
             top == cropBox.y
             right == cropBox.x + cropBox.width
             bottom == cropBox.y + cropBox.height
             rawLeft == rawBox'.x
             rawTop == rawBox'.y
             rawRight == rawBox'.x + rawBox'.width
             rawBottom == rawBox'.y + rawBox'.height
         IN  /\ h \in {"n", "s"} => (rawBox'.x = cropBox.x /\ rawBox'.width = cropBox.width)
             /\ h \in {"e", "w"} => (rawBox'.y = cropBox.y /\ rawBox'.height = cropBox.height)
             /\ h \in {"nw", "n", "ne"} => (rawTop = top + dy /\ rawBottom = bottom)
             /\ h \in {"sw", "s", "se"} => (rawTop = top /\ rawBottom = bottom + dy)
             /\ h \in {"nw", "w", "sw"} => (rawLeft = left + dx /\ rawRight = right)
             /\ h \in {"ne", "e", "se"} => (rawLeft = left /\ rawRight = right + dx)
             /\ h = "move" => /\ rawBox'.x = cropBox.x + dx
                              /\ rawBox'.y = cropBox.y + dy
                              /\ rawBox'.width = cropBox.width
                              /\ rawBox'.height = cropBox.height]_vars

C17_Witness ==
    /\ nDrags > 0
    /\ draggingHandle = "nw"
    /\ rawBox # NoBox
    /\ rawBox.x + rawBox.width = 9 * CanvasW
    /\ rawBox.x # CanvasW

\* C18: the crop box exists exactly while crop mode is active.
C18_BoxIffCropping == (cropBox # NoBox) <=> isCropping

C18_Witness == committedImage < 0 /\ cropLoads = {} /\ ~isCropping /\ cropBox = NoBox /\ nDrags > 0

\* C19 as stated: when Apply Crop completes, every transform, adjustment and
\* view setting is neutral and crop mode is off.
C19_CropResetsEverything ==
    [][(cropLoads' # cropLoads /\ nCrops' = nCrops)
          => /\ rotation' = 0
             /\ uniformScale' = 100
             /\ flipScale' = NoFlip
             /\ zoom' = ZoomUnit
             /\ panOffset' = Origin
             /\ brightness' = 100
             /\ contrast' = 100
             /\ saturation' = 100
             /\ activeFilter' = "none"
             /\ ~isCropping']_vars

\* C20: a stroke begins only in the brush tool outside crop mode, so the canvas
\* mouse handlers change neither the mask surface nor the mask history while
\* another tool is selected or cropping is active.
C20_BrushOnlyOutsideCrop ==
    [][/\ (~isDrawing /\ isDrawing') => (activeTool = "brush" /\ ~isCropping)
       /\ (activeTool # "brush" \/ isCropping) => (~isDrawing /\ ~isDrawing')
       /\ ((isDrawing \/ isDrawing')
              /\ <<surface, history, historyIndex>>' # <<surface, history, historyIndex>>)
             => (activeTool = "brush" /\ ~isCropping)]_vars

C20_Witness == strokes > 0 /\ history # <<>> /\ isCropping /\ activeTool # "brush" /\ ~isDrawing

\* A step of undo or redo.
UndoRedoStep ==
    /\ lastOps' # lastOps
    /\ lastOps' # <<>>
    /\ lastOps'[Len(lastOps')].op \in {"undo", "redo"}

\* C21: undo and redo move the history cursor and leave the history sequence,
\* the transforms, adjustments, filter, crop state, zoom and pan, the committed
\* image and the edited result as they were; a change of a transform, an
\* adjustment or the view adds nothing to the history and leaves its cursor.
C21_UndoRedoOnlyMoveCursor ==
    [][/\ UndoRedoStep =>
             /\ historyIndex' # historyIndex
             /\ UNCHANGED <<history, adjustVars, isCropping, cropBox, zoom, panOffset,
                            committedImage, editedImageData>>
       /\ nAdjust' # nAdjust => UNCHANGED <<history, historyIndex>>]_vars

C21_Witness ==
    /\ lastOps # <<>>
    /\ lastOps[Len(lastOps)].op = "undo"
    /\ Len(history) = 2
    /\ historyIndex = 0
    /\ nAdjust > 0
    /\ rotation # 0

\* A run of handleDone.
DoneStep == nDone' = nDone + 1

\* What onEditComplete is called with.
EditCompleteCall ==
    /\ lastDone'.callback = "onEditComplete"
    /\ lastDone'.text = (IF prompt = <<>> THEN <<"AI edit">> ELSE prompt)
    /\ lastDone'.original = imageData
    /\ lastDone'.result = editedImageData

\* What onClientEditSave is called with: the bake of the current state.
ClientSaveCall ==
    /\ lastDone'.callback = "onClientEditSave"
    /\ lastDone'.bake =
           [src |-> committedImage, filter |-> ctxFilter, rotation |-> rotation,
            flipScale |-> flipScale, uniformScale |-> uniformScale]

\* handleDone starts at most one save and closes the editor.
AtMostOneSaveThenClose ==
    /\ ~isOpen'
    /\ imageData' = 0
    /\ \/ lastDone'.callback = "none" /\ saves' = saves
       \/ /\ lastDone'.callback # "none"
          /\ \E c \in saves' : c.callback = lastDone'.callback /\ saves' = saves \cup {c}
          /\ Cardinality(saves') = Cardinality(saves) + 1

\* C22 as stated: handleDone invokes at most one save callback and closes the
\* editor; with an edited result it calls onEditComplete with the result and the
\* prompt ('AI edit' when empty); otherwise, with unapplied changes, it calls
\* onClientEditSave with the bake; otherwise it saves nothing.
C22_AsStated ==
    [][DoneStep =>
          /\ AtMostOneSaveThenClose
          /\ IF editedImageData # NoResult
             THEN EditCompleteCall
             ELSE IF hasUnappliedChanges
                  THEN ClientSaveCall
                  ELSE lastDone'.callback = "none"]_vars

\* C22, amended: as stated, except that with unapplied changes and no edited
\* result onClientEditSave is called only when getBakedImageData gives an image
\* (the source image is decoded and the final canvas yields data); when it gives
\* none, nothing is saved.
C22_SavesWhatCanBeBaked ==
    [][DoneStep =>
          /\ AtMostOneSaveThenClose
          /\ IF editedImageData # NoResult
             THEN EditCompleteCall
             ELSE IF hasUnappliedChanges /\ lastDone'.baked
                  THEN ClientSaveCall
                  ELSE lastDone'.callback = "none"
          /\ committedImage = 0 => ~lastDone'.baked]_vars

\* Both callbacks were invoked, one per session.
C22_Witness ==
    /\ nDone = 2
    /\ ~isOpen
    /\ lastDone.callback = "onClientEditSave"
    /\ lastDone.bake.rotation = 90
    /\ \E m \in 1..Len(messages) : messages[m].text = <<"AI edit">>

\* C23: once every pending snapshot load has completed, the mask surface shows
\* exactly the snapshot at historyIndex (outside a stroke in progress).
C23_SurfaceShowsCursorSnapshot ==
    (CanvasMounted /\ maskLoads = {} /\ ~isDrawing /\ historyIndex >= 0)
        => surface = history[historyIndex + 1].px

\* C24: whenever the mask history is non-empty, its entry at index 0 is the
\* blank snapshot.
C24_FirstEntryBlank == history # <<>> => history[1].px = {}

\* The two normalized ranges of a rotation in degrees.
InHalfTurns == rotation > -180 /\ rotation <= 180
InFullTurn == rotation >= 0 /\ rotation < 360

\* C25: the rotation is kept in one normalized range, (-180, 180] or [0, 360),
\* the same before and after every step.
C25_OneRotationRange ==
    [][(InHalfTurns /\ InHalfTurns') \/ (InFullTurn /\ InFullTurn')]_vars

\* C26: the editor's zoom stays within [0.2, 8], uniformScale within [0.5, 2]
\* and the viewer's scale within [0.1, 8]; all three are positive.
C26_ZoomAndScaleBounded ==
    /\ zoom >= ZoomUnit \div 5 /\ zoom <= 8 * ZoomUnit /\ zoom > 0
    /\ uniformScale >= 50 /\ uniformScale <= 200
    /\ ~RLess(scale, Rat(1, 10)) /\ ~RLess(Whole(8), scale) /\ scale.n > 0

\* The editor zoomed out to its smallest zoom with the image at half scale.
C26_Witness == isOpen /\ zoom = ZoomUnit \div 5 /\ uniformScale = 50 /\ nAdjust >= 9

\* A wheel event of the viewer.
WheelStep == nWheel' = nWheel + 1

\* The image point under the mouse along one axis: (mouse - position) / scale.
PointUnder(mouse, pos, sc) == RDiv(RSub(Whole(mouse), pos), sc)

C29_DraggingOnlyWhenZoomed == isDragging => RLess(Whole(1), scale)

\* C28, as stated: for every rotation, uniform scale and source size of
\* non-zero rotated extent the size renderCanvas computes is no wider than the
\* container's width - 40, no taller than its height - 40, and equals the limit
\* on at least one axis.
C28_AsStated ==
    \A container \in Containers :
        \A canvas \in {renderCanvas(container)} :
            LET maxWidth == Whole(container.width - 40)
                maxHeight == Whole(container.height - 40)
            IN  canvas.drawn =>
                    /\ ~RLess(maxWidth, canvas.canvasWidth)
                    /\ ~RLess(maxHeight, canvas.canvasHeight)
                    /\ \/ canvas.canvasWidth = maxWidth
                       \/ canvas.canvasHeight = maxHeight

\* C28: for every rotation, uniform scale and source size of non-zero rotated
\* extent the canvas element (the computed size without its fraction) is no
\* wider than the container's width - 40, no taller than its height - 40, and
\* on at least one axis within one pixel of the limit.
C28_CanvasFitsContainer ==
    \A container \in Containers :
        \A canvas \in {renderCanvas(container)} :
            LET maxWidth == container.width - 40
                maxHeight == container.height - 40
            IN  canvas.drawn =>
                    /\ canvas.width <= maxWidth
                    /\ canvas.height <= maxHeight
                    /\ \/ canvas.width >= maxWidth - 1
                       \/ canvas.height >= maxHeight - 1

\* A scaled image turned by 30 degrees: neither axis of the image is aligned
\* with the canvas, and each of the two limits binds for some container.
C28_Witness ==
    /\ committedImage = 1
    /\ rotation = 30
    /\ uniformScale = 150
    /\ \E c \in Containers : renderCanvas(c).width >= c.width - 41
    /\ \E c \in Containers :
           /\ renderCanvas(c).height >= c.height - 41
           /\ renderCanvas(c).width < c.width - 41

\* The effect chain of a drawing: the filter string (preset, brightness,
\* contrast, saturation), the rotation, the flip and the uniformly scaled size.
EffectChain(drawing) ==
    [filter |-> drawing.filter,
     rotate |-> drawing.rotate,
     flip |-> drawing.flip,
     imgWidth |-> drawing.imgWidth,
     imgHeight |-> drawing.imgHeight]

\* C30: the live preview and the bake apply the same filter, adjustments,
\* rotation, flip and uniform scale; with neutral adjustments and the identity
\* transform the bake has the source's natural width and height.
C30_PreviewMatchesBake ==
    /\ \A container \in Containers :
           \A canvas \in {renderCanvas(container)} :
               canvas.drawn => EffectChain(canvas) = EffectChain(bakeCanvas)
    /\ (committedImage # 0 /\ ~hasUnappliedChanges) =>
           \A baked \in {bakeCanvas} :
               /\ baked.width = naturalSize(committedImage).width
               /\ baked.height = naturalSize(committedImage).height

\* A flipped, turned and filtered image in the editor.
C30_Witness ==
    /\ isOpen
    /\ committedImage # 0
    /\ flipScale.x = -1
    /\ rotation = 45
    /\ activeFilter = "grayscale"


\* A step of handleApplyCrop that reached the crop.
ApplyCropStep == nCrops' = nCrops + 1

\* The effect chain of the raster Apply Crop crops, its filter string read as
\* one without a preset.
CropChain ==
    [filter |-> <<"none">> \o transformedCanvas.filter,
     rotate |-> transformedCanvas.rotate,
     flip |-> transformedCanvas.flip,
     imgWidth |-> transformedCanvas.imgWidth,
     imgHeight |-> transformedCanvas.imgHeight]

\* C31: the raster Apply Crop crops is the bake of the current state: it has the
\* filter preset, brightness, contrast, saturation, rotation, flip and uniform
\* scale getBakedImageData would apply.
C31_CropAppliesTheBake == [][ApplyCropStep => CropChain = EffectChain(bakeCanvas)]_vars

\* The crop box that covers a display canvas.
WholeCanvas(canvas) == [x |-> 0, y |-> 0, width |-> canvas.width, height |-> canvas.height]

\* Two numbers less than a pixel apart or a pixel apart.
Near(a, b) == ~RLess(RAdd(a, Whole(1)), b) /\ ~RLess(RAdd(b, Whole(1)), a)

\* C32: for every zoom level, rotation and uniform scale a crop box covering the
\* entire display canvas selects the entire raster: the source rectangle has
\* origin 0,0 and the raster's width and height (here: to within a pixel, the
\* display canvas having whole-numbered sides).
C32_WholeBoxSelectsWholeRaster ==
    \A container \in Containers :
        \A canvas \in {renderCanvas(container)} :
            \A source \in {cropSource(WholeCanvas(canvas), canvas.width)} :
                canvas.drawn =>
                    /\ source.sx = Whole(0)
                    /\ source.sy = Whole(0)
                    /\ Near(source.sWidth, transformedCanvas.newWidth)
                    /\ Near(source.sHeight, transformedCanvas.newHeight)

\* The onload of a cropped image: the crop replaces the committed image.
CropReplacesImage == \E id \in 1..MaxCrops : CropImageLoaded(id)

\* The footer shows Apply & Save and the button is enabled.
ApplyAndSaveEnabled ==
    /\ CanvasMounted
    /\ editedImageData = NoResult
    /\ activeTool \notin {"brush", "expand"}
    /\ hasUnappliedChanges

\* C33: once Apply Crop has replaced the committed image, and before any further
\* edit, the crop can be saved: Apply & Save is enabled.
C33_CropCanBeSaved == [][CropReplacesImage => ApplyAndSaveEnabled']_vars

\* The strokes of this session that have ended, and the step that ends one.
StrokesEnded == strokes - (IF isDrawing THEN 1 ELSE 0)
StrokeEnds == isDrawing /\ ~isDrawing'

\* C34: every stroke appends exactly one snapshot to the mask history, also
\* when mouseup and mouseleave both fire for it, and no snapshot of an earlier
\* stroke is lost by a later one: the history holds every snapshot made, in the
\* order made, one for each ended stroke after the blank one if there is one.
C34_OneSnapshotPerStroke ==
    /\ [](/\ Len(history) = nextSid
          /\ \A j \in 1..Len(history) : history[j].sid = j - 1
          /\ nextSid - StrokesEnded \in {0, 1})
    /\ [][StrokeEnds => history' = Append(history, [sid |-> nextSid, px |-> surface])]_vars

\* Two strokes have ended in succession after the blank snapshot.
C34_Witness ==
    /\ strokes = 2
    /\ ~isDrawing
    /\ Len(history) = 3
    /\ history[1].px = {}
    /\ history[3].px = {1, 2}

\* A frame that runs its callbacks with the canvas mounted.
FrameRuns == frameRequests # {} /\ frameRequests' = {} /\ CanvasMounted

\* C35: at most one render request is pending at any time, and the queueRender
\* calls made within one frame cause exactly one renderCanvas execution.
C35_OneRenderPerFrame ==
    /\ [](Cardinality(frameRequests) <= 1)
    /\ [][FrameRuns => nRendered' = 1]_vars

\* Three queueRender calls since the last frame, with the canvas mounted, after
\* a frame that rendered.
C35_Witness ==
    /\ CanvasMounted
    /\ nQueued >= 3
    /\ nRendered = 1
    /\ frameRequests # {}

\* C36 as stated: while the editor is open, a load callback (of a source image
\* or of a crop result) gives committedImage only an image made from the
\* imageData the editor was last opened with.
C36_StaleLoadIgnored ==
    [][(isOpen' /\ committedImage' # committedImage /\ committedImage' # 0)
          => Abs(committedImage') = imageData']_vars


\* The persisted messages the conversation shows, in its order.
PersistedShown == SelectSeq(Tail(messages), LAMBDA m : m.id > 0)

\* The conversation is the greeting followed by every record of the session,
\* each once (and by the error messages of failed operations).
ShowsTheSession ==
    /\ messages[1] = InitialMessage
    /\ \A i, j \in 1..Len(PersistedShown) :
           PersistedShown[i].id = PersistedShown[j].id => i = j
    /\ {PersistedShown[i].id : i \in 1..Len(PersistedShown)}
           = {r.id : r \in {q \in rows : q.sessionId = ThisSession}}

\* The step in which loadHistory finishes.
LoadFinishes == loadOutcome = "none" /\ loadOutcome' # "none"

\* C37 as stated: the end of the history load removes no persisted message
\* from the conversation, and once the load and every other operation of the
\* hook have finished the conversation is the greeting followed by every
\* persisted message of the session, each once.
C37_AsStated ==
    /\ [][LoadFinishes =>
            \A i \in 1..Len(messages) :
                messages[i].id > 0 => \E j \in 1..Len(messages') : messages'[j] = messages[i]]_vars
    /\ []((loadOutcome # "none" /\ dbCalls = {} /\ \E r \in rows : r.by > 0) => ShowsTheSession)

\* C37, amended: the same, the second part for a load that succeeded.
C37_LoadKeepsPersisted ==
    /\ [][LoadFinishes =>
            \A i \in 1..Len(messages) :
                messages[i].id > 0 => \E j \in 1..Len(messages') : messages'[j] = messages[i]]_vars
    /\ []((loadOutcome = "loaded" /\ dbCalls = {}) => ShowsTheSession)

\* The load was the last to finish, after a message of this visit had been
\* stored and appended, with a record of an earlier visit in the store.
C37_Witness ==
    /\ loadOutcome = "loaded"
    /\ dbCalls = {}
    /\ lastDb.fn = "getAllMessagesFromDB"
    /\ \E r \in rows : r.by > 0
    /\ \E r \in rows : r.by = 0 /\ r.sessionId = ThisSession
    /\ Len(messages) >= 3


\* C38: indexedDB.open is called once for any number and order of calls of the
\* db functions, every caller awaits the one promise, and the promise, once
\* made, is never replaced, a rejected one included.
C38_OpenedOnce ==
    /\ [](/\ Len(opens) <= 1
          /\ nDbCalls > 0 => Len(opens) = 1 /\ dbPromise = 1
          /\ \A c \in dbCalls : c.pc = "getDB" => c.awaits = dbPromise)
    /\ [][dbPromise # 0 => dbPromise' = dbPromise /\ Len(opens') = Len(opens)]_vars

\* The open was rejected; two callers await the rejected promise, one of them
\* an initDB and one another function, and a third operation has failed on it.
C38_Witness ==
    /\ opens = <<"rejected">>
    /\ nDbCalls = MaxDbCalls
    /\ \E c, d \in dbCalls :
           c.pc = "getDB" /\ d.pc = "getDB" /\ c.fn = "initDB" /\ d.fn # "initDB"
    /\ loadOutcome = "failed"


\* The sequence has the records of the set, each once.
Enumerates(result, rs) ==
    /\ Len(result) = Cardinality(rs)
    /\ {result[i] : i \in 1..Len(result)} = rs

\* The step in which a db function's transaction finishes with success.
DbSucceeds(fn) == lastDb'.call # lastDb.call /\ lastDb'.fn = fn /\ lastDb'.ok

\* C39: for every session s and every store reached, getAllMessagesFromDB(s)
\* gives exactly the records of s, in non-decreasing order of timestamp, and
\* clearAllMessages(s) leaves exactly the records of the other sessions; the
\* hook's load gets that result for its session, and a clearHistory that
\* succeeded leaves the store of the other sessions as it was and the
\* conversation with the greeting alone.
C39_SessionScoped ==
    /\ [](\A s \in SessionIds :
            /\ \A result \in {getAllMessagesFromDB(rows, s)} :
                   /\ Enumerates(result, {r \in rows : r.sessionId = s})
                   /\ \A i \in 1..(Len(result) - 1) :
                          result[i].timestamp <= result[i + 1].timestamp
            /\ clearAllMessages(rows, s) = {r \in rows : r.sessionId # s})
    /\ [][DbSucceeds("getAllMessagesFromDB") =>
            Enumerates(lastDb'.value, {r \in rows : r.sessionId = ThisSession})]_vars
    /\ [][DbSucceeds("clearAllMessages") =>
            /\ rows' = {r \in rows : r.sessionId # ThisSession}
            /\ messages' = <<InitialMessage>>]_vars

\* clearHistory has succeeded after a load that showed records of the session:
\* the records of another session are still in the store.
C39_Witness ==
    /\ lastDb.fn = "clearAllMessages"
    /\ lastDb.ok
    /\ loadOutcome = "loaded"
    /\ rows # {}
    /\ nextRowKey > Cardinality(rows) + 1
    /\ messages = <<InitialMessage>>

============================================================================
